---------------------------- MODULE Spec2Model ----------------------------
(***************************************************************************)
(* Predictive health and alerting engine of the UPS monitoring backend.    *)
(*                                                                         *)
(* The specifications of this module:                                      *)
(*   SpecStatus     determine_current_status (main.py), numeric records    *)
(*   SpecStatusAny  the same on records of any shape                       *)
(*   SpecGemini     one call of GeminiAIService.generate_failure_reasons   *)
(*   Spec           the datastore shared by the refresh loop               *)
(*                  (UPSMonitorService.run_loop) and the prediction cycle  *)
(*                  (ContinuousPredictionService.generate_predictions)     *)
(*   SpecStall      an explanation call on the refresh loop's event loop   *)
(*   SpecGate       the refresh loop alone, over several ticks             *)
(*   SpecPredict    predict_with_detailed_reasons                          *)
(*   SpecBucket     the risk_level and timeframe of a prediction           *)
(*   SpecHistory    _compute_history_risk                                  *)
(*   SpecAlerts     AlertService.generate_status_alerts                    *)
(*   SpecCycles     prediction cycles alone, on schedule and on demand     *)
(*   SpecWindow     PredictiveMonitor._fetch_recent_history                *)
(*   SpecEnsemble   RandomForestClassifier.predict and predict_proba       *)
(*   SpecInfer      inference for one unit, repeated over the same state   *)
(*   SpecTrain      RandomForestClassifier.fit, then one prediction        *)
(*   SpecStartup    RealTimeUPSMonitor.initialize                          *)
(*   SpecSchedule   ContinuousPredictionService.run_loop                   *)
(*   SpecWalk       the refresh walk of one unit over several ticks        *)
(*                                                                         *)
(* Metric values (battery %, temperature C, load %, efficiency %) are kept *)
(* in tenths, probabilities and the failure risk in hundredths, so that    *)
(* the code's float comparisons become integer comparisons.                *)
(***************************************************************************)
EXTENDS Integers, Sequences, FiniteSets, TLC

VARIABLES
    sIn,        \* SpecStatus: the record handed to determine_current_status
    sOut,       \* SpecStatus: the status it returned ("none" before the call)
    gIn,        \* SpecGemini: inputs of the call (adapter present, metrics, probability)
    gpc,        \* SpecGemini: position inside generate_failure_reasons
    gAttempt,   \* SpecGemini: the loop variable `attempt`
    gTrace,     \* SpecGemini: adapter calls and sleeps performed so far, in order
    gResult,    \* SpecGemini: the list returned (a sequence of reason tags)
    ups,        \* Spec: collection upsdata, unit -> document
    predictions,\* Spec: collection ups_predictions, in insertion order
    now,        \* Spec: wall clock in minutes
    last_prediction_time, \* Spec: UPSMonitorService.last_prediction_time
    mpc,        \* Spec: position of UPSMonitorService.run_loop
    made_at,    \* Spec: the minutes at which run_predictions called make_predictions
    ups_history,\* Spec: collection ups_history, in insertion order
    last,       \* Spec: the operation that ran last, with its inputs and outcome
    fIn,        \* pure functions: the arguments of the call under check
    fOut        \* pure functions: <<>> before the call, <<result>> after it

statusVars == <<sIn, sOut>>
geminiVars == <<gIn, gpc, gAttempt, gTrace, gResult>>
engineVars == <<ups, predictions, now, last_prediction_time, mpc, made_at, ups_history, last>>
pureVars == <<fIn, fOut>>
vars == <<sIn, sOut, gIn, gpc, gAttempt, gTrace, gResult,
          ups, predictions, now, last_prediction_time, mpc, made_at, ups_history, last,
          fIn, fOut>>

\* A metric value of x whole units (percent, degrees), in the tenths the model stores.
U(x) == 10 * x

\* Optional values: None is the empty tuple, a value v is <<v>>.
None == <<>>
Some(v) == <<v>>

\* dict.get(key, default)
Get(d, key, default) == IF key \in DOMAIN d THEN d[key] ELSE default

\* dict.get(key) is None: the key is absent from the document
Missing(d, key) == key \notin DOMAIN d

\* The document d with only the keys in `keys`.
Restrict(d, keys) == [k \in keys |-> d[k]]

\* A plausible slip: only the upper end of the range is validated.
OutOfRangeAboveOnly(x, hi) == x > hi

\* not (0 <= x <= hi): the range validation of determine_current_status
OutOfRange(x, hi) == ~(0 <= x /\ x <= hi)

(***************************************************************************)
(* determine_current_status (main.py).  float() of a value that is not a   *)
(* number raises, and the handler returns "healthy".                       *)
(***************************************************************************)
\* A plausible slip: the bands are tested from the mildest to the worst.
StatusBandsMildestFirst(b, t, l, e, r) ==
    IF b < U(35) \/ t > U(28) \/ l > U(70) \/ e < U(90) \/ r > 40
        THEN "risky"
    ELSE IF b < U(25) \/ t > U(32) \/ l > U(80) \/ e < U(85) \/ r > 60
        THEN "warning"
    ELSE IF b < U(15) \/ t > U(38) \/ l > U(90) \/ e < U(80) \/ r > 80
        THEN "failed"
    ELSE "healthy"

\* The four bands, worst first.
StatusBands(b, t, l, e, r) ==
    IF b < U(15) \/ t > U(38) \/ l > U(90) \/ e < U(80) \/ r > 80
        THEN "failed"
    ELSE IF b < U(25) \/ t > U(32) \/ l > U(80) \/ e < U(85) \/ r > 60
        THEN "warning"
    ELSE IF b < U(35) \/ t > U(28) \/ l > U(70) \/ e < U(90) \/ r > 40
        THEN "risky"
    ELSE "healthy"

\* The fields determine_current_status reads.
StatusKeys == {"batteryLevel", "temperature", "load", "efficiency", "failureRisk"}

\* A document lists in `invalid` the fields whose value float() rejects (None,
\* a text that is no number); a document without the list has none.
NotNumeric(d, key) == ~Missing(d, "invalid") /\ key \in d.invalid

\* A plausible slip: the conversion error is not caught and reaches the caller.
status_on_error_raised == "raised"

\* What the except branches return.
status_on_error == "healthy"

determine_current_status(ups_data) ==
    LET b0 == Get(ups_data, "batteryLevel", U(100))
        t0 == Get(ups_data, "temperature", U(25))
        l0 == Get(ups_data, "load", U(50))
        e0 == Get(ups_data, "efficiency", U(95))
        r0 == Get(ups_data, "failureRisk", 0)
    IN  IF \E key \in StatusKeys : NotNumeric(ups_data, key)
            THEN status_on_error   \* float() raised: except (ValueError, TypeError)
        ELSE LET b == IF OutOfRange(b0, U(100)) THEN U(100) ELSE b0
                 t == IF OutOfRange(t0, U(100)) THEN U(25) ELSE t0
                 l == IF OutOfRange(l0, U(100)) THEN U(50) ELSE l0
                 e == IF OutOfRange(e0, U(100)) THEN U(95) ELSE e0
                 r == IF OutOfRange(r0, 100) THEN 0 ELSE r0
             IN  StatusBands(b, t, l, e, r)


(***************************************************************************)
(* SpecStatus: determine_current_status applied to one record.             *)
(***************************************************************************)
\* Values around every threshold of the bands, the ends of the valid range,
\* and one value past each end.
BatterySamples    == {U(0), U(10), 149, U(15), 249, U(25), 349, U(35), U(100), -1, 1001}
TemperatureSamples == {U(0), U(28), 281, U(32), 321, U(38), 381, U(100), -1, 1001}
LoadSamples       == {U(0), U(70), 701, U(80), 801, U(90), 901, U(100), -1, 1001}
EfficiencySamples == {U(0), 799, U(80), 849, U(85), 899, U(90), U(100), -1, 1001}
RiskSamples       == {0, 40, 41, 60, 61, 80, 81, 100, -1, 101}

StatusInputs ==
    [batteryLevel: BatterySamples, temperature: TemperatureSamples,
     load: LoadSamples, efficiency: EfficiencySamples, failureRisk: RiskSamples]

EngineIdle ==
    /\ ups = <<>>
    /\ predictions = <<>>
    /\ now = 0
    /\ last_prediction_time = None
    /\ mpc = "idle"
    /\ made_at = <<>>
    /\ ups_history = <<>>
    /\ last = [op |-> "none"]

GeminiIdle ==
    /\ gIn = <<>>
    /\ gpc = "idle"
    /\ gAttempt = 0
    /\ gTrace = <<>>
    /\ gResult = <<>>

StatusIdle ==
    /\ sIn = <<>>
    /\ sOut = "none"

PureIdle ==
    /\ fIn = <<>>
    /\ fOut = <<>>

InitStatus ==
    /\ sIn \in StatusInputs
    /\ sOut = "none"
    /\ GeminiIdle
    /\ EngineIdle
    /\ PureIdle

DetermineStatus ==
    /\ sOut = "none"
    /\ sOut' = determine_current_status(sIn)
    /\ UNCHANGED <<sIn, geminiVars, engineVars, pureVars>>

NextStatus == DetermineStatus

SpecStatus == InitStatus /\ [][NextStatus]_vars

InRange(d) ==
    /\ 0 <= d.batteryLevel /\ d.batteryLevel <= U(100)
    /\ 0 <= d.temperature /\ d.temperature <= U(100)
    /\ 0 <= d.load /\ d.load <= U(100)
    /\ 0 <= d.efficiency /\ d.efficiency <= U(100)
    /\ 0 <= d.failureRisk /\ d.failureRisk <= 100

FailedBand(d) ==
    \/ d.batteryLevel < U(15) \/ d.temperature > U(38) \/ d.load > U(90)
    \/ d.efficiency < U(80) \/ d.failureRisk > 80

WarningBand(d) ==
    \/ d.batteryLevel < U(25) \/ d.temperature > U(32) \/ d.load > U(80)
    \/ d.efficiency < U(85) \/ d.failureRisk > 60

RiskyBand(d) ==
    \/ d.batteryLevel < U(35) \/ d.temperature > U(28) \/ d.load > U(70)
    \/ d.efficiency < U(90) \/ d.failureRisk > 40

\* C1: for in-range metrics the status is the worst band any metric falls in:
\* failed iff a failed threshold is crossed, else warning iff a warning threshold
\* is crossed, else risky iff a risky threshold is crossed, else healthy.
C1_WorstBandWins ==
    (sOut # "none" /\ InRange(sIn)) =>
        /\ (sOut = "failed") <=> FailedBand(sIn)
        /\ (sOut = "warning") <=> (~FailedBand(sIn) /\ WarningBand(sIn))
        /\ (sOut = "risky") <=> (~FailedBand(sIn) /\ ~WarningBand(sIn) /\ RiskyBand(sIn))
        /\ (sOut = "healthy") <=> (~FailedBand(sIn) /\ ~WarningBand(sIn) /\ ~RiskyBand(sIn))

\* C1 witness: battery 10% with every other metric perfect has been classified failed.
C1_Witness ==
    /\ sOut = "failed"
    /\ sIn.batteryLevel = U(10) /\ sIn.temperature = U(28) /\ sIn.load = U(70)
    /\ sIn.efficiency = U(100) /\ sIn.failureRisk = 0

\* Records of any shape: each field in the healthy band, in a worse band or
\* out of range, and possibly missing or holding a value that is no number.
AnyStatusInputs ==
    { Restrict(d, (StatusKeys \ missing) \cup {"invalid"}) :
        d \in [batteryLevel : {U(50), U(10), -1}, temperature : {U(25), 1001},
               load : {U(50), U(95)}, efficiency : {U(95), U(70)},
               failureRisk : {0, 101}, invalid : SUBSET StatusKeys],
        missing \in SUBSET StatusKeys }

InitStatusAny ==
    /\ sIn \in AnyStatusInputs
    /\ sOut = "none"
    /\ GeminiIdle
    /\ EngineIdle
    /\ PureIdle

SpecStatusAny == InitStatusAny /\ [][NextStatus]_vars

\* C19: determine_current_status is total: whatever the record (missing
\* fields, values that are no numbers, numbers out of range) it returns one
\* of the four statuses and never raises.
C19_StatusTotal ==
    sOut # "none" => sOut \in {"healthy", "risky", "warning", "failed"}

\* A record with a missing load and a value that is no number was classified.
C19_Witness ==
    /\ sOut = "healthy"
    /\ Missing(sIn, "load")
    /\ sIn.invalid # {}

\* The top of the valid range of a field, in the unit the model stores it.
RangeTop(key) == IF key = "failureRisk" THEN 100 ELSE U(100)

\* The fields of a record whose value is outside the valid range.
OutOfRangeKeys(d) == {key \in StatusKeys : d[key] < 0 \/ d[key] > RangeTop(key)}

\* The value of the field crosses no threshold of the risky band.
InHealthyBand(d, key) ==
    CASE key = "batteryLevel" -> d[key] >= U(35)
      [] key = "temperature"  -> d[key] <= U(28)
      [] key = "load"         -> d[key] <= U(70)
      [] key = "efficiency"   -> d[key] >= U(90)
      [] OTHER                -> d[key] <= 40

\* C20: when exactly one metric is outside its valid range and every other
\* metric is in the healthy band, the status is healthy.
C20_MalformedReadingIsHealthy ==
    (/\ sOut # "none"
     /\ Cardinality(OutOfRangeKeys(sIn)) = 1
     /\ \A key \in StatusKeys \ OutOfRangeKeys(sIn) : InHealthyBand(sIn, key))
        => sOut = "healthy"

\* A record with battery -0.1 and every other metric healthy was classified.
C20_Witness ==
    /\ sOut = "healthy"
    /\ sIn.batteryLevel = -1
    /\ OutOfRangeKeys(sIn) = {"batteryLevel"}
    /\ \A key \in StatusKeys \ {"batteryLevel"} : InHealthyBand(sIn, key)


(***************************************************************************)
(* GeminiAIService (ml/gemini_service.py).                                 *)
(***************************************************************************)
\* self.max_retries
max_retries == 3

RECURSIVE Pow2(_)
\* 2 ** n
Pow2(n) == IF n = 0 THEN 1 ELSE 2 * Pow2(n - 1)

\* abs(x)
Abs(x) == IF x < 0 THEN -x ELSE x

\* reasons[:n]
Take(seq, n) == SubSeq(seq, 1, IF Len(seq) < n THEN Len(seq) ELSE n)

\* The probability-banded statement, added only when no metric gave a reason.
ProbabilityReason(probability_failure) ==
    IF probability_failure > 80 THEN <<"probability_critical">>
    ELSE IF probability_failure > 60 THEN <<"probability_elevated">>
    ELSE IF probability_failure > 40 THEN <<"probability_moderate">>
    ELSE <<>>

\* _generate_fallback_reasons: one tag per reason string, in the order appended.
GenerateFallbackReasons(ups_data, probability_failure) ==
    LET battery_level == ups_data.batteryLevel
        temperature   == ups_data.temperature
        load          == ups_data.load
        power_input   == ups_data.powerInput
        power_output  == ups_data.powerOutput
        efficiency    == ups_data.efficiency
        battery ==
            IF Missing(ups_data, "batteryLevel") THEN <<>>
            ELSE IF battery_level < U(20) THEN <<"battery_critical">>
            ELSE IF battery_level < U(30) THEN <<"battery_high">>
            ELSE IF battery_level < U(40) THEN <<"battery_moderate">>
            ELSE IF battery_level < U(60) THEN <<"battery_wear">>
            ELSE <<>>
        temp ==
            IF Missing(ups_data, "temperature") THEN <<>>
            ELSE IF temperature > U(50) THEN <<"temperature_critical">>
            ELSE IF temperature > U(45) THEN <<"temperature_high">>
            ELSE IF temperature > U(40) THEN <<"temperature_elevated">>
            ELSE <<>>
        ld ==
            IF Missing(ups_data, "load") THEN <<>>
            ELSE IF load > U(95) THEN <<"load_critical">>
            ELSE IF load > U(90) THEN <<"load_high">>
            ELSE IF load > U(80) THEN <<"load_elevated">>
            ELSE <<>>
        power ==
            IF Missing(ups_data, "powerInput") \/ Missing(ups_data, "powerOutput") THEN <<>>
            ELSE IF Abs(power_input - power_output) > U(50) THEN <<"power_critical">>
            ELSE IF Abs(power_input - power_output) > U(20) THEN <<"power_moderate">>
            ELSE <<>>
        eff ==
            IF Missing(ups_data, "efficiency") THEN <<>>
            ELSE IF efficiency < U(80) THEN <<"efficiency_critical">>
            ELSE IF efficiency < U(85) THEN <<"efficiency_low">>
            ELSE <<>>
        reasons == battery \o temp \o ld \o power \o eff
    IN  Take(IF reasons = <<>> THEN ProbabilityReason(probability_failure) ELSE reasons, 6)

\* _parse_gemini_response on a text given as its lines, each line by its kind:
\*   "bullet"        starts with a bullet, dash or emoji marker and has text
\*   "marker_only"   a bullet or dash with nothing after it
\*   "plain"         no marker at its start, no emoji marker inside
\*   "inline_siren"  no marker at its start, text after a siren emoji inside
\*   "inline_warn"   no marker at its start, text after a warning emoji inside
ParseGeminiResponse(response_text) ==
    LET Kind(k) == SelectSeq(response_text, LAMBDA line: line = k)
        bullets == [i \in 1..Len(Kind("bullet")) |-> "ai_bullet"]
        sirens  == [i \in 1..Len(Kind("inline_siren")) |-> "ai_siren"]
        warns   == [i \in 1..Len(Kind("inline_warn")) |-> "ai_warn"]
        reasons == IF bullets # <<>> THEN bullets
                   ELSE IF sirens # <<>> THEN sirens
                   ELSE warns
    IN  Take(reasons, 5)

\* A plausible slip: an off-by-one in the loop bound.
HasNextAttemptOffByOne(attempt) == attempt + 1 <= max_retries

\* range(self.max_retries): is there an iteration after `attempt`?
HasNextAttempt(attempt) == attempt + 1 < max_retries

\* if attempt == self.max_retries - 1: break
IsLastAttempt(attempt) == attempt = max_retries - 1


(***************************************************************************)
(* SpecGemini: one call of generate_failure_reasons, one action per step   *)
(* of its retry loop.  gTrace records each adapter call with its outcome   *)
(* and each time.sleep with its duration in seconds.                       *)
(***************************************************************************)
GeminiBatterySamples     == {U(10), U(90)}
GeminiTemperatureSamples == {U(24), U(46)}
GeminiLoadSamples        == {U(40), U(85)}
GeminiEfficiencySamples  == {U(97), U(82)}
\* powerOutput for a powerInput of 1000 W: balanced, and 100 W apart.
GeminiPowerOutputSamples == {U(990), U(900)}
GeminiProbabilitySamples == {0, 40, 41, 61, 81, 100}

\* What one generate_content call can do: raise (error or timeout), return an
\* empty response, or return a text.
ResponseTexts == {<<"bullet", "plain">>, <<"plain">>, <<"plain", "inline_siren">>}
AdapterOutcomes ==
    {[kind |-> "raise", text |-> <<>>], [kind |-> "empty", text |-> <<>>]}
    \cup {[kind |-> "text", text |-> t] : t \in ResponseTexts}

\* Unit documents: every metric either absent or one of its samples.
GeminiMetricKeys == {"batteryLevel", "temperature", "load", "efficiency", "powerOutput"}
GeminiUnits ==
    { Restrict(d, keys \cup {"powerInput"}) :
        d \in [batteryLevel: GeminiBatterySamples,
               temperature: GeminiTemperatureSamples,
               load: GeminiLoadSamples,
               efficiency: GeminiEfficiencySamples,
               powerInput: {U(1000)},
               powerOutput: GeminiPowerOutputSamples],
        keys \in SUBSET GeminiMetricKeys }

GeminiInputs ==
    [model: BOOLEAN, ups_data: GeminiUnits, probability_failure: GeminiProbabilitySamples]

InitGemini ==
    /\ gIn \in GeminiInputs
    /\ gpc = "start"
    /\ gAttempt = 0
    /\ gTrace = <<>>
    /\ gResult = <<>>
    /\ StatusIdle
    /\ PureIdle
    /\ EngineIdle

\* if not self.model: return self._generate_fallback_reasons(...)
GeminiBegin ==
    /\ gpc = "start"
    /\ IF gIn.model
          THEN /\ gpc' = "call"
               /\ gResult' = gResult
          ELSE /\ gpc' = "done"
               /\ gResult' = GenerateFallbackReasons(gIn.ups_data, gIn.probability_failure)
    /\ UNCHANGED <<gIn, gAttempt, gTrace, statusVars, engineVars, pureVars>>

\* One iteration of `for attempt in range(self.max_retries)` up to its sleep.
GeminiCall ==
    /\ gpc = "call"
    /\ \E outcome \in AdapterOutcomes :
          /\ gTrace' = Append(gTrace, [ev |-> "call", attempt |-> gAttempt,
                                       outcome |-> outcome.kind])
          /\ IF outcome.kind = "text"
                THEN \* response.text is non-empty: return the parsed reasons
                     /\ gResult' = ParseGeminiResponse(outcome.text)
                     /\ gpc' = "done"
                     /\ gAttempt' = gAttempt
                ELSE IF outcome.kind = "empty"
                THEN \* logged; the for loop goes straight to its next iteration
                     /\ gResult' = gResult
                     /\ IF HasNextAttempt(gAttempt)
                           THEN gpc' = "call" /\ gAttempt' = gAttempt + 1
                           ELSE gpc' = "fallback" /\ gAttempt' = gAttempt
                ELSE \* except Exception
                     /\ gResult' = gResult
                     /\ gAttempt' = gAttempt
                     /\ gpc' = IF IsLastAttempt(gAttempt) THEN "fallback" ELSE "sleep"
    /\ UNCHANGED <<gIn, statusVars, engineVars, pureVars>>

\* time.sleep(2 ** attempt), then the next iteration
GeminiSleep ==
    /\ gpc = "sleep"
    /\ gTrace' = Append(gTrace, [ev |-> "sleep", attempt |-> gAttempt,
                                 secs |-> Pow2(gAttempt)])
    /\ IF HasNextAttempt(gAttempt)
          THEN gpc' = "call" /\ gAttempt' = gAttempt + 1
          ELSE gpc' = "fallback" /\ gAttempt' = gAttempt
    /\ UNCHANGED <<gIn, gResult, statusVars, engineVars, pureVars>>

\* return self._generate_fallback_reasons(ups_data, prediction_data)
GeminiFallback ==
    /\ gpc = "fallback"
    /\ gResult' = GenerateFallbackReasons(gIn.ups_data, gIn.probability_failure)
    /\ gpc' = "done"
    /\ UNCHANGED <<gIn, gAttempt, gTrace, statusVars, engineVars, pureVars>>

NextGemini == GeminiBegin \/ GeminiCall \/ GeminiSleep \/ GeminiFallback

SpecGemini == InitGemini /\ [][NextGemini]_vars

\* The adapter calls made so far.
GeminiCalls == SelectSeq(gTrace, LAMBDA e : e.ev = "call")

\* The adapter was unavailable, or every attempt made raised or came back empty.
AdapterNeverAnswered == \A i \in 1..Len(gTrace) :
    gTrace[i].ev = "call" => gTrace[i].outcome # "text"

\* No metric of the unit breaches a band of the local template.
NoBandBreached(d) ==
    /\ Missing(d, "batteryLevel") \/ d.batteryLevel >= U(60)
    /\ Missing(d, "temperature") \/ d.temperature <= U(40)
    /\ Missing(d, "load") \/ d.load <= U(80)
    /\ Missing(d, "efficiency") \/ d.efficiency >= U(85)
    /\ Missing(d, "powerOutput") \/ Abs(d.powerInput - d.powerOutput) <= U(20)

\* C8: when the adapter is unavailable or fails on every attempt, the list
\* returned is never empty, whatever the unit and the failure probability.
C8_FallbackNeverEmpty ==
    (gpc = "done" /\ AdapterNeverAnswered) => gResult # <<>>

\* C9: at most max_retries adapter calls are made in one call, and a call in
\* which no attempt returned a text ends with the local fallback template.
C9_BoundedRetriesThenFallback ==
    /\ Len(GeminiCalls) <= max_retries
    /\ (gpc = "done" /\ AdapterNeverAnswered) =>
          gResult = GenerateFallbackReasons(gIn.ups_data, gIn.probability_failure)

\* C9 witness: three failed attempts, then the fallback template was returned.
C9_Witness ==
    /\ gpc = "done"
    /\ Len(GeminiCalls) = max_retries
    /\ AdapterNeverAnswered
    /\ gResult # <<>>

\* C10: every retry is preceded by a backoff wait, whether the failed attempt
\* raised or returned an empty response, and the waits are 1 then 2 seconds.
C10_EveryRetryAfterBackoff ==
    \A i \in 1..Len(gTrace) :
        (gTrace[i].ev = "call" /\ gTrace[i].attempt > 0) =>
            /\ i > 1
            /\ gTrace[i - 1].ev = "sleep"
            /\ gTrace[i - 1].secs = Pow2(gTrace[i].attempt - 1)


(***************************************************************************)
(* The engine: the documents of upsdata and ups_predictions, the refresh   *)
(* loop UPSMonitorService.run_loop and the prediction cycle                *)
(* ContinuousPredictionService.generate_predictions.                       *)
(*                                                                         *)
(* A unit document carries batteryLevel, temperature, efficiency, status,  *)
(* its alerts and, for units registered through the API, upsId.  Each      *)
(* refresh of a unit adds a sample to ups_history.  A prediction           *)
(* document carries ups_id, probability_failure, risk_level, timeframe     *)
(* and its shape: "enhanced" as written by the two prediction steps (with  *)
(* ups_object_id), "stored" as rewritten by AlertService.                  *)
(***************************************************************************)
\* Units of the fleet (create_ups_systems makes 12).
NumUnits == 2
\* Refresh ticks explored.
MaxTicks == 1
\* Prediction cycles of ContinuousPredictionService explored.
MaxCycles == 1

Units == 1..NumUnits

\* self.monitoring_interval and self.prediction_interval, in minutes
monitoring_interval == 1
prediction_interval == 15

\* limit(100) of the read in update_ups_alerts
prediction_read_limit == 100

Min(a, b) == IF a < b THEN a ELSE b
Max(a, b) == IF a > b THEN a ELSE b

\* The elements of a set of units as a sequence, in the order find({}) returns them.
UnitSeq(S) == SelectSeq([i \in 1..NumUnits |-> i], LAMBDA u : u \in S)

RECURSIVE Reverse(_)
Reverse(seq) == IF seq = <<>> THEN <<>> ELSE Append(Reverse(Tail(seq)), Head(seq))

\* One unit's random draws of a tick: random.random() < 0.8, randint(5, 15),
\* uniform(0.1, 0.5), uniform(-2, 2), uniform(-0.5, 0.5).
DrawUp ==
    [recharge |-> TRUE, charge |-> U(15), discharge |-> 1, temp_change |-> -U(2), efficiency_change |-> 5]
DrawDown ==
    [recharge |-> FALSE, charge |-> U(5), discharge |-> 5, temp_change |-> U(2), efficiency_change |-> -5]

\* The draws of one tick for the whole fleet: every unit down, or the odd units
\* up and the even ones down.
FleetDraws(units) ==
    { [u \in units |-> DrawDown],
      [u \in units |-> IF u % 2 = 1 THEN DrawUp ELSE DrawDown] }

\* The units whose write raises in one tick: none, or the first one.
WriteFailures(units) == {{}, units \cap {1}}

\* The status rules of update_ups_data: the current status is kept unless a rule fires.
NewStatus(current_status, new_battery, new_temp, new_efficiency) ==
    IF new_battery < U(10) THEN "failed"
    ELSE IF new_battery < U(20) /\ new_temp > U(40) THEN "warning"
    ELSE IF new_temp > U(45) THEN "warning"
    ELSE IF new_efficiency < U(85) THEN "warning"
    ELSE IF new_battery > U(30) /\ new_temp < U(40) /\ new_efficiency > U(90)
        THEN IF current_status \in {"warning", "failed"} THEN "healthy" ELSE current_status
    ELSE current_status

\* The document update_ups_data writes for one unit.
UpdatedUnit(doc, d) ==
    LET current_battery == Get(doc, "batteryLevel", U(100))
        new_battery ==
            IF current_battery < U(20)
                THEN IF d.recharge THEN Min(U(100), current_battery + d.charge)
                     ELSE Max(0, current_battery - d.discharge)
            ELSE Max(0, current_battery - d.discharge)
        new_temp == Max(U(15), Min(U(45), Get(doc, "temperature", U(25)) + d.temp_change))
        new_efficiency ==
            Max(U(85), Min(U(99), Get(doc, "efficiency", U(95)) + d.efficiency_change))
        new_status == NewStatus(Get(doc, "status", "healthy"), new_battery, new_temp, new_efficiency)
    IN  [doc EXCEPT !.batteryLevel = new_battery, !.temperature = new_temp,
                    !.efficiency = new_efficiency, !.status = new_status]

\* A plausible slip: the medium bucket starts at 0.5, as in store_ml_predictions.
RiskLevelFromHalf(probability_failure) ==
    IF probability_failure > 70 THEN "high"
    ELSE IF probability_failure > 50 THEN "medium" ELSE "low"

\* risk_assessment.risk_level and .timeframe of an enhanced prediction
RiskLevel(probability_failure) ==
    IF probability_failure > 70 THEN "high"
    ELSE IF probability_failure > 40 THEN "medium" ELSE "low"

Timeframe(probability_failure) ==
    IF probability_failure > 70 THEN "6_hours"
    ELSE IF probability_failure > 40 THEN "12_hours" ELSE "24_hours"

\* The prediction document both prediction steps build for a unit.
EnhancedPrediction(u, doc, probability_failure) ==
    [shape |-> "enhanced",
     ups_id |-> Get(doc, "upsId", None),     \* None stands for 'Unknown'
     ups_object_id |-> u,
     probability_failure |-> probability_failure,
     risk_level |-> RiskLevel(probability_failure),
     timeframe |-> Timeframe(probability_failure)]

\* The document store_ml_predictions writes for a prediction it read.
StoredPrediction(prediction) ==
    [shape |-> "stored",
     ups_id |-> prediction.ups_id,
     probability_failure |-> prediction.probability_failure,
     risk_level |-> IF prediction.probability_failure > 70 THEN "high"
                    ELSE IF prediction.probability_failure > 50 THEN "medium" ELSE "low",
     timeframe |-> IF prediction.probability_failure > 70 THEN "6_hours" ELSE "24_hours"]


\* What scoring the fleet can give in one cycle, unit -> failure probability in
\* hundredths, a unit being absent when its scoring raised or returned None:
\* every unit at 0, every unit at exactly 0.4, the first unit at 1.0 and the
\* others at 0, and the first unit failing with the others at 0.4.
ScoreProfiles(units) ==
    { [u \in units |-> 0], [u \in units |-> 40],
      [u \in units |-> IF u = 1 THEN 100 ELSE 0],
      [u \in units \ {1} |-> 40] }

\* prediction_result['probability_failure'] >= 0.4
AlertWorthy(probability_failure) == probability_failure >= 40

\* A plausible slip: a unit whose scoring raises ends the loop over the units.
ContinuousPredictionsAbortOnError(data, prob) ==
    LET kept == UnitSeq({u \in DOMAIN prob :
                            /\ AlertWorthy(prob[u])
                            /\ \A v \in DOMAIN data : v < u => v \in DOMAIN prob})
    IN  [i \in 1..Len(kept) |-> EnhancedPrediction(kept[i], data[kept[i]], prob[kept[i]])]

\* The list generate_predictions builds: one enhanced prediction for each unit
\* that was scored (no exception, a result returned) at or above the threshold.
ContinuousPredictions(data, prob) ==
    LET kept == UnitSeq({u \in DOMAIN prob : AlertWorthy(prob[u])})
    IN  [i \in 1..Len(kept) |-> EnhancedPrediction(kept[i], data[kept[i]], prob[kept[i]])]

\* The list make_predictions builds: one enhanced prediction for each unit scored.
MonitorPredictions(data, prob) ==
    LET kept == UnitSeq(DOMAIN prob)
    IN  [i \in 1..Len(kept) |-> EnhancedPrediction(kept[i], data[kept[i]], prob[kept[i]])]

\* How one generate_predictions call ends.
CycleOutcome(model_loaded, read_ok, data, new, deleted, written) ==
    IF ~model_loaded THEN "no_model"
    ELSE IF ~read_ok THEN "load_error"
    ELSE IF DOMAIN data = {} THEN "no_units"
    ELSE IF new = <<>> THEN "none_generated"
    ELSE IF deleted /\ written = Len(new) THEN "saved"
    ELSE "save_error"

\* A plausible slip: the old predictions are cleared as the cycle starts.
StoreAfterCycleClearedFirst(store, outcome, new, deleted, written) ==
    IF outcome \in {"saved", "save_error"} /\ deleted THEN SubSeq(new, 1, written)
    ELSE <<>>

\* ups_predictions after one generate_predictions call: untouched on every early
\* return; otherwise delete_many({}) and then the inserts that succeeded.
StoreAfterCycle(store, outcome, new, deleted, written) ==
    IF outcome \in {"no_model", "load_error", "no_units", "none_generated"} THEN store
    ELSE IF ~deleted THEN store
    ELSE SubSeq(new, 1, written)

\* find().sort('timestamp', -1).limit(100): stored documents carry a datetime,
\* enhanced ones an ISO string, and a datetime sorts above a string.
LatestPredictions(store) ==
    Take(Reverse(SelectSeq(store, LAMBDA r : r.shape = "stored"))
         \o Reverse(SelectSeq(store, LAMBDA r : r.shape = "enhanced")),
         prediction_read_limit)

\* str(ups.get('_id')) and str(prediction.get('ups_id', '')): the text of the
\* ObjectId the store gave a unit, and the text of a upsId (None for 'Unknown').
StrObjectId(u) == [kind |-> "_id", of |-> Some(u)]
StrUpsId(ups_id) == [kind |-> "upsId", of |-> ups_id]

\* The fields of an alert the model keeps.
Alert(type, metric, severity, ups_id) ==
    [type |-> type, metric |-> metric, severity |-> severity, ups_id |-> ups_id]

\* A plausible slip: a risky unit is alerted on like a warning one.
StatusAlertsRiskyToo(ups_id, status) ==
    IF status = "failed" THEN <<Alert("status_alert", "system_status", "critical", ups_id)>>
    ELSE IF status \in {"warning", "risky"}
        THEN <<Alert("status_alert", "system_status", "warning", ups_id)>>
    ELSE <<>>

\* generate_status_alerts, the if/elif on the unit's status
StatusAlerts(ups_id, status) ==
    IF status = "failed" THEN <<Alert("status_alert", "system_status", "critical", ups_id)>>
    ELSE IF status = "warning" THEN <<Alert("status_alert", "system_status", "warning", ups_id)>>
    ELSE <<>>

\* generate_status_alerts, the three ifs on the unit's metrics
MetricAlerts(ups_id, battery_level, temperature, efficiency) ==
    (IF battery_level < U(20)
        THEN <<Alert("metric_alert", "battery_level",
                     IF battery_level < U(10) THEN "critical" ELSE "warning", ups_id)>>
        ELSE <<>>)
    \o (IF temperature > U(40)
        THEN <<Alert("metric_alert", "temperature",
                     IF temperature > U(45) THEN "critical" ELSE "warning", ups_id)>>
        ELSE <<>>)
    \o (IF efficiency < U(90)
        THEN <<Alert("metric_alert", "efficiency", "warning", ups_id)>>
        ELSE <<>>)

\* generate_status_alerts: the loop over the units, in the order they were read.
RECURSIVE StatusAlertsOver(_, _)
StatusAlertsOver(order, ups_data) ==
    IF order = <<>> THEN <<>>
    ELSE LET doc == ups_data[Head(order)]
             ups_id == StrObjectId(Head(order))
         IN  StatusAlerts(ups_id, Get(doc, "status", "unknown"))
             \o MetricAlerts(ups_id, Get(doc, "batteryLevel", U(100)),
                             Get(doc, "temperature", U(25)), Get(doc, "efficiency", U(95)))
             \o StatusAlertsOver(Tail(order), ups_data)

generate_status_alerts(ups_data) == StatusAlertsOver(UnitSeq(DOMAIN ups_data), ups_data)

\* generate_ml_prediction_alerts: one alert for each prediction read above 0.5.
generate_ml_prediction_alerts(read) ==
    LET risky == SelectSeq(read, LAMBDA p : p.probability_failure > 50)
    IN  [i \in 1..Len(risky) |->
            Alert("ml_prediction", "ml_prediction",
                  IF risky[i].probability_failure > 70 THEN "critical" ELSE "warning",
                  StrUpsId(risky[i].ups_id))]

\* [alert for alert in all_alerts if alert.get('ups_id') == str(ups_id)]
AlertsOf(u, all_alerts) == SelectSeq(all_alerts, LAMBDA alert : alert.ups_id = StrObjectId(u))

\* A plausible slip: the new alerts are pushed onto the stored list.
AlertsPushed(old, ups_alerts) == old \o ups_alerts

\* {'$set': {'alerts': ups_alerts}}
AlertsSet(old, ups_alerts) == ups_alerts

\* The units whose update_one raises in update_ups_alerts: none, or the first one.
AlertWriteFailures(units) == {{}, units \cap {1}}

\* Units the refresh loop finds on a machine whose fleet already exists, with
\* the alerts an earlier tick left on them.
ExistingFleet ==
    [u \in Units |-> [upsId |-> Some(u), batteryLevel |-> 195, temperature |-> U(39),
                      efficiency |-> 905, status |-> "healthy",
                      alerts |-> MetricAlerts(StrObjectId(u), 195, U(39), 905)]]

\* Fleets as create_ups_systems draws them: randint(80, 100), randint(20, 35),
\* randint(90, 98), status 'healthy', no upsId.  Two draws: every unit at the
\* good end of the three ranges, and the odd units at the bad end.
CreatedBest ==
    [batteryLevel |-> U(100), temperature |-> U(20), efficiency |-> U(98), status |-> "healthy",
     alerts |-> <<>>]
CreatedWorst ==
    [batteryLevel |-> U(80), temperature |-> U(35), efficiency |-> U(90), status |-> "healthy",
     alerts |-> <<>>]
CreatedFleets ==
    { [u \in Units |-> CreatedBest],
      [u \in Units |-> IF u % 2 = 1 THEN CreatedWorst ELSE CreatedBest] }

\* A prediction left in ups_predictions by an earlier run of the service.
LeftoverPredictions ==
    <<[shape |-> "stored", ups_id |-> Some(1), probability_failure |-> 70,
       risk_level |-> "medium", timeframe |-> "24_hours"]>>

Init ==
    /\ \/ ups = <<>> /\ predictions \in {<<>>, LeftoverPredictions}
       \/ ups = ExistingFleet /\ predictions = LeftoverPredictions
    /\ now = 0
    /\ last_prediction_time = None
    /\ mpc = "start"
    /\ made_at = <<>>
    /\ ups_history = <<>>
    /\ last = [op |-> "none", cycle |-> 0]
    /\ StatusIdle
    /\ PureIdle
    /\ GeminiIdle

\* run_loop up to its while loop: create_ups_systems, and return if it fails.
CreateUpsSystems ==
    /\ mpc = "start"
    /\ \E connected \in BOOLEAN :
          IF ~connected
            THEN /\ mpc' = "stopped"
                 /\ ups' = ups
            ELSE /\ mpc' = "update"
                 /\ IF Cardinality(DOMAIN ups) >= NumUnits
                       THEN ups' = ups
                       ELSE ups' \in CreatedFleets
    /\ last' = [op |-> "create_ups_systems", cycle |-> last.cycle]
    /\ UNCHANGED <<predictions, now, last_prediction_time, made_at, ups_history,
                   statusVars, geminiVars, pureVars>>

\* 'upsId': ups.get('upsId') or ups.get('name')
UnitKey(u, doc) ==
    IF ~Missing(doc, "upsId") THEN StrUpsId(doc.upsId) ELSE [kind |-> "name", of |-> Some(u)]

\* history_doc: the snapshot update_ups_data inserts into ups_history
HistorySample(u, doc, current_time) ==
    [upsId |-> UnitKey(u, doc), upsObjectId |-> u, timestamp |-> current_time,
     batteryLevel |-> doc.batteryLevel, temperature |-> doc.temperature,
     efficiency |-> doc.efficiency, status |-> doc.status]

\* A plausible slip: ups_history keeps the latest snapshots only, as the $slice
\* of performanceHistory does.
HistoryLatestOnly(old, rows) == rows

\* history_collection.insert_one(history_doc), once for each row
HistoryInserted(old, rows) == old \o rows

\* The units of a tick whose $push update or ups_history insert raises, after
\* their $set update was written: none, or the last one.
HistoryFailures(units) == {{}, units \cap {NumUnits}}

\* update_ups_data: every unit found is redrawn and written, except those whose
\* write raises, and a snapshot of each unit written is appended to
\* ups_history unless the $push update or the insert raises; False when the
\* store cannot be reached or holds no unit.
UpdateUpsData ==
    /\ mpc = "update"
    /\ \E connected \in BOOLEAN :
          IF ~connected \/ DOMAIN ups = {}
            THEN /\ ups' = ups
                 /\ ups_history' = ups_history
                 /\ last' = [op |-> "update_ups_data", cycle |-> last.cycle,
                             result |-> FALSE, updated |-> {}]
                 /\ mpc' = "predict"
            ELSE \E draw \in FleetDraws(DOMAIN ups), failed \in WriteFailures(DOMAIN ups) :
                 \E unrecorded \in HistoryFailures(DOMAIN ups \ failed) :
                 LET recorded == UnitSeq(DOMAIN ups \ (failed \cup unrecorded))
                 IN
                 /\ ups' = [u \in DOMAIN ups |->
                              IF u \in failed THEN ups[u] ELSE UpdatedUnit(ups[u], draw[u])]
                 /\ ups_history' = HistoryInserted(ups_history,
                        [i \in 1..Len(recorded) |->
                            HistorySample(recorded[i], ups'[recorded[i]], now)])
                 /\ last' = [op |-> "update_ups_data", cycle |-> last.cycle,
                             result |-> TRUE, updated |-> DOMAIN ups \ failed]
                 /\ mpc' = "alerts"
    /\ UNCHANGED <<predictions, now, last_prediction_time, made_at, statusVars, geminiVars, pureVars>>

\* update_alerts -> update_ups_alerts: the status alerts of the units read; the
\* predictions read are handed to store_ml_predictions, which clears the
\* collection and writes them back in its own shape (a failing insert ends the
\* rewrite where it stands), and give the ML alerts; then every unit's alerts
\* are set, in order, up to the first update that raises.
UpdateAlerts ==
    /\ mpc = "alerts"
    /\ \E connected \in BOOLEAN, written \in 0..Len(predictions) :
       \E failed \in AlertWriteFailures(DOMAIN ups) :
          LET read == LatestPredictions(predictions)
              rewritten == [i \in 1..Len(read) |-> StoredPrediction(read[i])]
              all_alerts == generate_status_alerts(ups) \o generate_ml_prediction_alerts(read)
          IN  IF ~connected \/ DOMAIN ups = {}
                THEN /\ written = 0 /\ failed = {}
                     /\ predictions' = predictions
                     /\ ups' = ups
                     /\ last' = [op |-> "update_ups_alerts", cycle |-> last.cycle,
                                 result |-> FALSE]
                ELSE /\ IF read = <<>>
                           THEN written = 0 /\ predictions' = predictions
                           ELSE predictions' = SubSeq(rewritten, 1, written)
                     /\ ups' = [u \in DOMAIN ups |->
                                  IF \E v \in failed : v <= u THEN ups[u]
                                  ELSE [ups[u] EXCEPT
                                          !.alerts = AlertsSet(@, AlertsOf(u, all_alerts))]]
                     /\ last' = [op |-> "update_ups_alerts", cycle |-> last.cycle,
                                 result |-> failed = {}]
    /\ mpc' = "predict"
    /\ UNCHANGED <<now, last_prediction_time, made_at, ups_history,
                   statusVars, geminiVars, pureVars>>

\* The model artifact ups_failure_model.pkl as load_model finds it on disk.
Artifacts == {"absent", "corrupt", "valid"}

\* A plausible slip: only the file's existence is checked.
load_model_unchecked(artifact) == artifact # "absent"

\* load_model: False when the file does not exist, False when unpickling it
\* raises, True otherwise
load_model(artifact) == artifact = "valid"

\* The gate of run_predictions.
PredictionDue ==
    \/ last_prediction_time = None
    \/ now - last_prediction_time[1] >= prediction_interval

\* run_predictions: gated; load_ups_data, make_predictions, and when the list is
\* not empty save_predictions (inserts only) and last_prediction_time = now.
RunPredictions ==
    /\ mpc = "predict"
    /\ IF ~PredictionDue
          THEN /\ UNCHANGED <<predictions, last_prediction_time, made_at>>
               /\ last' = [op |-> "run_predictions", cycle |-> last.cycle, ran |-> FALSE,
                           artifact |-> "not_read"]
          ELSE \E loaded \in BOOLEAN, artifact \in Artifacts :
               \E prob \in ScoreProfiles(DOMAIN ups) :
                 LET model_loaded == load_model(artifact)
                     new == IF ~loaded \/ ~model_loaded THEN <<>>
                            ELSE MonitorPredictions(ups, prob)
                 IN  /\ (~loaded \/ ~model_loaded) => (prob = [u \in DOMAIN ups |-> 0])
                     /\ ~loaded => artifact = "valid"
                     /\ made_at' = IF loaded THEN Append(made_at, now) ELSE made_at
                     /\ \E written \in 0..Len(new) :
                          /\ predictions' = predictions \o SubSeq(new, 1, written)
                          /\ last_prediction_time' =
                                IF new = <<>> THEN last_prediction_time ELSE Some(now)
                          /\ last' = [op |-> "run_predictions", cycle |-> last.cycle,
                                      ran |-> new # <<>>, prob |-> prob,
                                      saved |-> written = Len(new),
                                      artifact |-> IF loaded THEN artifact ELSE "not_read"]
    /\ mpc' = "sleep"
    /\ UNCHANGED <<ups, now, ups_history,
                   statusVars, geminiVars, pureVars>>

\* await asyncio.sleep(self.monitoring_interval)
MonitorSleep ==
    /\ mpc = "sleep"
    /\ now' = now + monitoring_interval
    /\ mpc' = "update"
    /\ last' = [op |-> "sleep", cycle |-> last.cycle]
    /\ UNCHANGED <<ups, predictions, last_prediction_time, made_at, ups_history,
                   statusVars, geminiVars, pureVars>>

\* ContinuousPredictionService.generate_predictions, one whole call.  Both loops
\* are tasks of one event loop and neither awaits inside a tick or a cycle, so a
\* cycle runs while the refresh loop is not started, asleep or ended.
GeneratePredictions ==
    /\ mpc \in {"start", "sleep", "stopped"}
    /\ last.cycle < MaxCycles
    /\ \E artifact \in Artifacts, read_ok \in BOOLEAN :
       \E prob \in ScoreProfiles(DOMAIN ups) :
         LET new == ContinuousPredictions(ups, prob)
         IN  \E deleted \in BOOLEAN, written \in 0..Len(new) :
               LET outcome == CycleOutcome(load_model(artifact), read_ok, ups, new, deleted, written)
                   reached_scoring == outcome \in {"none_generated", "saved", "save_error"}
               IN  /\ ~reached_scoring => (prob = [u \in DOMAIN ups |-> 0])
                   /\ (outcome # "save_error") => (deleted /\ written = Len(new))
                   /\ ~deleted => (written = 0)
                   /\ predictions' = StoreAfterCycle(predictions, outcome, new, deleted, written)
                   /\ last' = [op |-> "generate_predictions", cycle |-> last.cycle + 1,
                               outcome |-> outcome, prob |-> prob, artifact |-> artifact]
    /\ UNCHANGED <<ups, now, last_prediction_time, mpc, made_at, ups_history,
                   statusVars, geminiVars, pureVars>>

\* The next tick of the while loop, within the ticks explored.
RefreshTick == now < MaxTicks * monitoring_interval /\ UpdateUpsData

Next ==
    \/ CreateUpsSystems
    \/ RefreshTick
    \/ UpdateAlerts
    \/ RunPredictions
    \/ MonitorSleep
    \/ GeneratePredictions

Spec == Init /\ [][Next]_vars


(***************************************************************************)
(* Properties of the engine.                                               *)
(***************************************************************************)
\* The records of a store that name unit u of the fleet: by ups_object_id (the
\* unit's _id) when they carry one, else by the unit's upsId.
RecordsFor(store, u) ==
    SelectSeq(store, LAMBDA r :
        IF r.shape = "enhanced" THEN r.ups_object_id = u
        ELSE u \in DOMAIN ups /\ ~Missing(ups[u], "upsId") /\ r.ups_id = ups[u].upsId)

\* A step that is one generate_predictions call: the only steps that count a cycle.
CycleEnds == last'.op = "generate_predictions" /\ last'.cycle = last.cycle + 1

\* C2: after a refresh tick that wrote units, the status stored on every unit
\* written equals determine_current_status of the metrics stored on it.
C2_StatusDerivedFromMetrics ==
    (last.op = "update_ups_data" /\ last.result) =>
        \A u \in last.updated : ups[u].status = determine_current_status(ups[u])

\* C3: after a prediction cycle that loaded the model, read at least one unit
\* and met no datastore error, ups_predictions holds exactly one record for
\* each unit scored at 0.4 or more and none for a unit scored below 0.4.
C3_SuccessfulCycleReplaces ==
    (last.op = "generate_predictions" /\ last.outcome \in {"saved", "none_generated"}) =>
        \A u \in DOMAIN last.prob :
            Len(RecordsFor(predictions, u)) = IF AlertWorthy(last.prob[u]) THEN 1 ELSE 0

\* C4: a prediction cycle that cannot load the model, or that finds no unit,
\* returns leaving ups_predictions exactly as it was.
C4_FailedCycleLeavesStore ==
    [][(CycleEnds /\ last'.outcome \in {"no_model", "no_units"})
          => predictions' = predictions]_vars

\* A cycle has ended without a model or without units while ups_predictions
\* held records.
C4_Witness ==
    /\ last.op = "generate_predictions"
    /\ last.outcome \in {"no_model", "no_units"}
    /\ predictions = LeftoverPredictions

\* C5: a prediction cycle that fails while saving leaves every record that
\* was in ups_predictions before it still there.
C5_FailedSaveKeepsOldSet ==
    [][(CycleEnds /\ last'.outcome = "save_error")
          => \A i \in 1..Len(predictions) :
                Len(SelectSeq(predictions', LAMBDA r : r = predictions[i])) >=
                Len(SelectSeq(predictions, LAMBDA r : r = predictions[i]))]_vars

\* C6: ups_predictions never holds a record whose probability_failure is
\* below 0.4.
C6_NoRecordBelowThreshold ==
    \A i \in 1..Len(predictions) : AlertWorthy(predictions[i].probability_failure)

\* C7: ups_predictions never holds more than one record for a unit.
C7_AtMostOneRecordPerUnit ==
    \A u \in Units : Len(RecordsFor(predictions, u)) <= 1


(***************************************************************************)
(* SpecStall: one explanation call made inside a prediction cycle, on the  *)
(* event loop the refresh loop runs on.  startup_event (main.py) starts    *)
(* both run_loop coroutines with asyncio.create_task on one loop;          *)
(* generate_predictions, generate_content and time.sleep are plain         *)
(* blocking calls, so from the start of the explanation call to its return *)
(* no other coroutine runs.  generate_content is called without a timeout  *)
(* (self.timeout is set and never used).                                   *)
(***************************************************************************)
\* The units and probabilities the stalled call is made for.
StallInputs ==
    { g \in GeminiInputs :
        /\ DOMAIN g.ups_data = GeminiMetricKeys \cup {"powerInput"}
        /\ g.ups_data.batteryLevel = U(10)
        /\ g.ups_data.temperature = U(46)
        /\ g.ups_data.load = U(85)
        /\ g.ups_data.efficiency = U(82)
        /\ g.ups_data.powerOutput = U(900)
        /\ g.probability_failure \in {41, 100} }

\* The event loop is free: the prediction cycle is not inside its explanation call.
LoopFree == gpc \in {"start", "done"}

\* The refresh loop on a machine whose fleet exists, its prediction step having
\* last run at minute 0 with nothing stored.
InitStall ==
    /\ gIn \in StallInputs
    /\ gpc = "start"
    /\ gAttempt = 0
    /\ gTrace = <<>>
    /\ gResult = <<>>
    /\ ups = ExistingFleet
    /\ predictions = <<>>
    /\ now = 0
    /\ last_prediction_time = Some(0)
    /\ mpc = "start"
    /\ made_at = <<>>
    /\ ups_history = <<>>
    /\ last = [op |-> "none", cycle |-> 0]
    /\ StatusIdle
    /\ PureIdle

\* The cycle reaches its explanation call while the refresh loop is not running.
StallBegin == mpc \in {"start", "sleep", "stopped"} /\ GeminiBegin

\* A step of the refresh loop, which needs the event loop.
StallRefresh ==
    /\ LoopFree
    /\ \/ CreateUpsSystems
       \/ RefreshTick
       \/ UpdateAlerts
       \/ RunPredictions
       \/ MonitorSleep

NextStall ==
    \/ StallBegin
    \/ GeminiCall
    \/ GeminiSleep
    \/ GeminiFallback
    \/ StallRefresh

SpecStall == InitStall /\ [][NextStall]_vars

\* The event loop runs every coroutine that is ready, and the local steps of
\* the explanation call always proceed; nothing makes the remote adapter return.
FairSpecStall ==
    /\ SpecStall
    /\ WF_vars(StallRefresh)
    /\ WF_vars(StallBegin)
    /\ WF_vars(GeminiSleep)
    /\ WF_vars(GeminiFallback)

\* C11: a slow or hung explanation call cannot stall the engine: the refresh
\* loop asleep between two ticks always reaches its next tick, and a call
\* waiting on the adapter is always given up or answered.
C11_SlowCallCannotStall ==
    /\ (mpc = "sleep") ~> (mpc = "update")
    /\ (gpc = "call") ~> (gpc \in {"sleep", "fallback", "done"})


\* C12: the refresh loop never terminates because the datastore is
\* unreachable, the initial check that the fleet exists included: run_loop
\* is never left.
C12_RefreshLoopNeverStops == mpc # "stopped"


\* A record of unit u with failure probability p is in the store.
Persisted(store, u, p) ==
    \E i \in 1..Len(store) :
        /\ store[i].shape = "enhanced"
        /\ store[i].ups_object_id = u
        /\ store[i].probability_failure = p

\* C13: when scoring one unit raises, the cycle still handles the remaining
\* units: after a cycle of either loop that met no datastore error, every
\* unit scored at 0.4 or more is in the set the cycle persisted.
C13_UnitFailureIsolated ==
    /\ (last.op = "generate_predictions" /\ last.outcome \in {"saved", "none_generated"}) =>
          \A u \in DOMAIN last.prob :
              AlertWorthy(last.prob[u]) => Persisted(predictions, u, last.prob[u])
    /\ (last.op = "run_predictions" /\ last.ran /\ last.saved) =>
          \A u \in DOMAIN last.prob :
              AlertWorthy(last.prob[u]) => Persisted(predictions, u, last.prob[u])

\* A cycle in which the first unit raised has persisted another unit.
C13_Witness ==
    /\ last.op = "generate_predictions"
    /\ last.outcome = "saved"
    /\ 1 \in DOMAIN ups
    /\ 1 \notin DOMAIN last.prob
    /\ \E u \in DOMAIN last.prob : Persisted(predictions, u, last.prob[u])


(***************************************************************************)
(* SpecGate: the refresh loop alone, over several ticks, to follow the     *)
(* gate of run_predictions from one tick to the next.                      *)
(***************************************************************************)
\* Refresh ticks explored by SpecGate.
MaxGateTicks == 2

InitGate ==
    /\ ups = ExistingFleet
    /\ predictions = <<>>
    /\ now = 0
    /\ last_prediction_time = None
    /\ mpc = "start"
    /\ made_at = <<>>
    /\ ups_history = <<>>
    /\ last = [op |-> "none", cycle |-> 0]
    /\ StatusIdle
    /\ PureIdle
    /\ GeminiIdle

\* The next tick of the while loop, within the ticks SpecGate explores.
GateTick == now < MaxGateTicks * monitoring_interval /\ UpdateUpsData

NextGate ==
    \/ CreateUpsSystems
    \/ GateTick
    \/ UpdateAlerts
    \/ RunPredictions
    \/ MonitorSleep

SpecGate == InitGate /\ [][NextGate]_vars

\* C14: between any two executions of make_predictions from run_predictions
\* at least prediction_interval passes, whatever the earlier one produced.
C14_PredictionStepGated ==
    \A i, j \in 1..Len(made_at) :
        i < j => made_at[j] - made_at[i] >= prediction_interval


(***************************************************************************)
(* SpecPredict: EnhancedUPSModelTrainer.predict_with_detailed_reasons      *)
(* applied to one unit.  The model is a RandomForestClassifier of 100      *)
(* unpruned trees, so predict_proba gives, per class, the hundredths of    *)
(* the trees voting for it; the classes are those of map_status, in order: *)
(* 0 healthy, 1 warning or risky, 2 failed.                                *)
(***************************************************************************)
\* The most classes a loaded model has.
MaxClasses == 3

\* Shares of the trees' votes a class can get, in hundredths.
VoteSamples == {0, 10, 20, 30, 40, 50, 60, 70, 80, 90, 100}

RECURSIVE SeqSum(_)
SeqSum(seq) == IF seq = <<>> THEN 0 ELSE Head(seq) + SeqSum(Tail(seq))

\* max(probability)
SeqMax(seq) == CHOOSE m \in {seq[i] : i \in DOMAIN seq} : \A i \in DOMAIN seq : seq[i] <= m

\* The class model.predict returns: the first one with the largest share.
PredictedClass(probability) ==
    (CHOOSE i \in DOMAIN probability :
        /\ probability[i] = SeqMax(probability)
        /\ \A j \in DOMAIN probability : j < i => probability[j] < probability[i]) - 1

\* What predict_proba can return for one unit: one share per class, summing to 1.
ProbaVectors ==
    { v \in UNION {[1..k -> VoteSamples] : k \in 1..MaxClasses} : SeqSum(v) = 100 }

\* predict_with_detailed_reasons without its failure_reasons and
\* features_used fields; probability[0] and probability[1] of the code are
\* probability[1] and probability[2] here.
predict_with_detailed_reasons(model_loaded, probability) ==
    IF ~model_loaded THEN [kind |-> "None"]
    ELSE LET failure_probability ==
                 IF Len(probability) > 1 THEN probability[2] ELSE 50
         IN  [kind |-> "prediction",
              prediction |-> PredictedClass(probability),
              probability_failure |-> failure_probability,
              probability_healthy |->
                  IF Len(probability) > 1 THEN probability[1] ELSE 100 - failure_probability,
              confidence |-> SeqMax(probability)]

PredictInputs == [model_loaded : BOOLEAN, probability : ProbaVectors]

InitPredict ==
    /\ fIn \in PredictInputs
    /\ fOut = <<>>
    /\ StatusIdle
    /\ GeminiIdle
    /\ EngineIdle

Predict ==
    /\ fOut = <<>>
    /\ fOut' = <<predict_with_detailed_reasons(fIn.model_loaded, fIn.probability)>>
    /\ UNCHANGED <<fIn, statusVars, geminiVars, engineVars>>

NextPredict == Predict

SpecPredict == InitPredict /\ [][NextPredict]_vars

\* The call has returned a prediction.
Predicted == fOut # <<>> /\ fOut[1].kind = "prediction"

\* C15: every prediction returned has probability_failure in [0,1] and
\* probability_healthy = 1 - probability_failure, whatever the number of
\* classes of the model.
C15_ProbabilitiesComplement ==
    Predicted =>
        /\ fOut[1].probability_failure \in 0..100
        /\ fOut[1].probability_healthy = 100 - fOut[1].probability_failure

\* C16: a unit the three-class model classifies as failed gets a
\* probability_failure above 0.7, hence a persisted prediction with
\* risk_level high and timeframe 6_hours.
C16_FailedClassIsHighRisk ==
    (Predicted /\ Len(fIn.probability) = 3 /\ fOut[1].prediction = 2) =>
        /\ fOut[1].probability_failure > 70
        /\ AlertWorthy(fOut[1].probability_failure)
        /\ RiskLevel(fOut[1].probability_failure) = "high"
        /\ Timeframe(fOut[1].probability_failure) = "6_hours"


(***************************************************************************)
(* SpecBucket: the risk_level and timeframe expressions of the two         *)
(* prediction steps, applied to two failure probabilities.                 *)
(***************************************************************************)
\* Failure probabilities, in hundredths.
BucketSamples == 0..100

\* low < medium < high
BucketRank(risk_level) ==
    IF risk_level = "low" THEN 0 ELSE IF risk_level = "medium" THEN 1 ELSE 2

InitBucket ==
    /\ fIn \in [p1 : BucketSamples, p2 : BucketSamples]
    /\ fOut = <<>>
    /\ StatusIdle
    /\ GeminiIdle
    /\ EngineIdle

AssessRisk ==
    /\ fOut = <<>>
    /\ fOut' = <<[risk_level1 |-> RiskLevel(fIn.p1), timeframe1 |-> Timeframe(fIn.p1),
                  risk_level2 |-> RiskLevel(fIn.p2), timeframe2 |-> Timeframe(fIn.p2)]>>
    /\ UNCHANGED <<fIn, statusVars, geminiVars, engineVars>>

NextBucket == AssessRisk

SpecBucket == InitBucket /\ [][NextBucket]_vars

\* One of the boundaries 0.4 and 0.7 separates p1 from p2.
BoundaryBetween(p1, p2) == (p1 <= 40 /\ 40 < p2) \/ (p1 <= 70 /\ 70 < p2)

\* C17: for p1 <= p2 the risk_level of p1 is not above that of p2, the two
\* differ exactly when 0.4 or 0.7 lies between them, and the timeframe
\* (24_hours, 12_hours, 6_hours) changes exactly where the risk_level does.
C17_BucketsMonotonic ==
    (fOut # <<>> /\ fIn.p1 <= fIn.p2) =>
        /\ BucketRank(fOut[1].risk_level1) <= BucketRank(fOut[1].risk_level2)
        /\ (fOut[1].risk_level1 # fOut[1].risk_level2) <=> BoundaryBetween(fIn.p1, fIn.p2)
        /\ (fOut[1].timeframe1 # fOut[1].timeframe2) <=> BoundaryBetween(fIn.p1, fIn.p2)
        /\ fOut[1].timeframe1 = CASE fOut[1].risk_level1 = "low" -> "24_hours"
                                  [] fOut[1].risk_level1 = "medium" -> "12_hours"
                                  [] OTHER -> "6_hours"

\* The two probabilities either side of the 0.4 boundary have been assessed.
C17_Witness ==
    /\ fOut # <<>>
    /\ fIn.p1 = 40 /\ fIn.p2 = 41
    /\ fOut[1].risk_level1 = "low" /\ fOut[1].risk_level2 = "medium"
    /\ fOut[1].timeframe1 = "24_hours" /\ fOut[1].timeframe2 = "12_hours"


(***************************************************************************)
(* SpecHistory: UPSPredictiveMonitor._compute_history_risk applied to one  *)
(* history window.  Components and risk are exact fractions, kept as       *)
(* multiples of 1/One; metric values are in tenths as elsewhere.           *)
(***************************************************************************)
\* Rows in the longest history window explored.
MaxWindow == 2

\* The value 1.0 of a component: a multiple of every divisor used below.
One == 5100000

\* A plausible slip: the quotient is used as it is.
Unclamped(num, den) == num * (One \div den)

\* max(0.0, min(1.0, num / den))
Clamp01(num, den) == Max(0, Min(den, num)) * (One \div den)

RECURSIVE SeqMaxOf(_)
SeqMaxOf(seq) ==
    IF Len(seq) = 1 THEN seq[1] ELSE Max(Head(seq), SeqMaxOf(Tail(seq)))

\* The components and the result of _compute_history_risk; `raised` tells that
\* the except branch returned 0.0.
compute_history_risk(history) ==
    LET zero == [raised |-> FALSE, temp_component |-> 0, battery_component |-> 0,
                 efficiency_component |-> 0, load_component |-> 0, temp_term |-> 0,
                 risk |-> 0]
    IN  IF history = <<>> THEN zero
        ELSE IF \E i \in 1..Len(history) :
                    \E key \in {"temperature", "batteryLevel", "efficiency", "load"} :
                        NotNumeric(history[i], key)
            THEN [zero EXCEPT !.raised = TRUE]
        ELSE
        LET temps == [i \in 1..Len(history) |-> Get(history[i], "temperature", U(25))]
            bats  == [i \in 1..Len(history) |-> Get(history[i], "batteryLevel", U(100))]
            effs  == [i \in 1..Len(history) |-> Get(history[i], "efficiency", U(95))]
            with_load == SelectSeq(history, LAMBDA h : ~Missing(h, "load"))
            loads == [i \in 1..Len(with_load) |-> with_load[i].load]
            temp_component == Clamp01(SeqMaxOf(temps) - U(28), U(45) - U(28))
            level_component == One - Clamp01(bats[1], U(100))
            drop == IF Len(bats) > 1 THEN bats[1] - bats[Len(bats)] ELSE 0
            drop_component == Clamp01(Abs(drop), U(20))
            battery_component == (60 * level_component + 40 * drop_component) \div 100
            efficiency_component == Clamp01(U(95) - effs[1], U(95) - U(80))
            load_component ==
                IF loads = <<>> THEN 0
                ELSE Clamp01(SeqMaxOf(loads) - U(70), U(95) - U(70))
            risk == (30 * temp_component + 30 * battery_component
                     + 20 * efficiency_component + 20 * load_component) \div 100
        IN  [raised |-> FALSE,
             temp_component |-> temp_component,
             battery_component |-> battery_component,
             efficiency_component |-> efficiency_component,
             load_component |-> load_component,
             temp_term |-> (30 * temp_component) \div 100,
             risk |-> Max(0, Min(One, risk))]

\* History rows: ordinary and extreme values, with and without a load, and a
\* row whose temperature is None.
HistoryRows ==
    { Restrict(h, keys) :
        h \in [temperature : {U(20), U(1000)}, batteryLevel : {U(100), U(10)},
               efficiency : {U(95), U(70)}, load : {U(100)}, invalid : {{}}],
        keys \in {{"temperature", "batteryLevel", "efficiency", "invalid"},
                  {"temperature", "batteryLevel", "efficiency", "load", "invalid"}} }
    \cup {[batteryLevel |-> U(50), efficiency |-> U(90), invalid |-> {"temperature"}]}

HistoryWindows == UNION {[1..n -> HistoryRows] : n \in 0..MaxWindow}

InitHistory ==
    /\ fIn \in HistoryWindows
    /\ fOut = <<>>
    /\ StatusIdle
    /\ GeminiIdle
    /\ EngineIdle

ComputeHistoryRisk ==
    /\ fOut = <<>>
    /\ fOut' = <<compute_history_risk(fIn)>>
    /\ UNCHANGED <<fIn, statusVars, geminiVars, engineVars>>

NextHistory == ComputeHistoryRisk

SpecHistory == InitHistory /\ [][NextHistory]_vars

\* C18: for every window the risk is in [0,1], each of the four components
\* is in [0,1], the temperature term is at most 0.3, and an empty window
\* gives 0.
C18_HistoryRiskBounded ==
    fOut # <<>> =>
        /\ fOut[1].risk \in 0..One
        /\ fOut[1].temp_component \in 0..One
        /\ fOut[1].battery_component \in 0..One
        /\ fOut[1].efficiency_component \in 0..One
        /\ fOut[1].load_component \in 0..One
        /\ 10 * fOut[1].temp_term <= 3 * One
        /\ fIn = <<>> => fOut[1].risk = 0

\* A window with a temperature of 1000 degrees has been scored: the
\* temperature component is 1.0 and its term 0.3.
C18_Witness ==
    /\ fOut # <<>>
    /\ ~fOut[1].raised
    /\ \E i \in 1..Len(fIn) : ~Missing(fIn[i], "temperature") /\ fIn[i].temperature = U(1000)
    /\ fOut[1].temp_component = One
    /\ 10 * fOut[1].temp_term = 3 * One
    /\ fOut[1].risk > 0


(***************************************************************************)
(* SpecAlerts: generate_status_alerts applied to one unit document.        *)
(***************************************************************************)
\* Statuses a unit document can carry, and metric values at, just past and far
\* past the alert thresholds (battery 20 and 10, temperature 40 and 45,
\* efficiency 90), down to the ends of the ranges.
AlertStatuses == {"failed", "warning", "healthy", "risky", "offline"}
AlertBatteries == {U(0), U(5), U(10), 199, U(20), U(100)}
AlertTemperatures == {U(25), U(40), 401, U(45), 451, U(100)}
AlertEfficiencies == {U(0), U(50), 899, U(90), U(95)}
AlertKeys == {"status", "batteryLevel", "temperature", "efficiency"}

\* Unit documents: every key present, or one key absent.
AlertInputs ==
    { Restrict(d, keys) :
        d \in [status : AlertStatuses, batteryLevel : AlertBatteries,
               temperature : AlertTemperatures, efficiency : AlertEfficiencies],
        keys \in {AlertKeys} \cup {AlertKeys \ {k} : k \in AlertKeys} }

InitAlerts ==
    /\ fIn \in AlertInputs
    /\ fOut = <<>>
    /\ StatusIdle
    /\ GeminiIdle
    /\ EngineIdle

GenerateStatusAlerts ==
    /\ fOut = <<>>
    /\ fOut' = <<generate_status_alerts([u \in {1} |-> fIn])>>
    /\ UNCHANGED <<fIn, statusVars, geminiVars, engineVars>>

NextAlerts == GenerateStatusAlerts

SpecAlerts == InitAlerts /\ [][NextAlerts]_vars

\* The alerts returned of one type, and of one metric.
AlertsOfType(type) == SelectSeq(fOut[1], LAMBDA alert : alert.type = type)
AlertsOnMetric(metric) == SelectSeq(fOut[1], LAMBDA alert : alert.metric = metric)

\* C21: a failed unit draws exactly one status alert, of severity critical; a
\* warning unit exactly one, of severity warning; a healthy or risky unit none.
C21_StatusAlertPerStatus ==
    fOut # <<>> =>
        LET status == Get(fIn, "status", "unknown")
            status_alerts == AlertsOfType("status_alert")
        IN  /\ status = "failed" =>
                Len(status_alerts) = 1 /\ status_alerts[1].severity = "critical"
            /\ status = "warning" =>
                Len(status_alerts) = 1 /\ status_alerts[1].severity = "warning"
            /\ status \in {"healthy", "risky"} => status_alerts = <<>>

C21_Witness ==
    /\ fOut # <<>>
    /\ Get(fIn, "status", "unknown") = "failed"
    /\ Len(AlertsOfType("status_alert")) = 1
    /\ Len(fOut[1]) > 1

\* C22: whatever the status, one battery alert exactly when the battery is below
\* 20, one temperature alert exactly when the temperature is above 40, one
\* efficiency alert exactly when the efficiency is below 90; and for each of the
\* three metrics the severity is warning just past the threshold and critical
\* at the far end of the metric's range.
C22_MetricAlertsScaled ==
    fOut # <<>> =>
        LET battery_level == Get(fIn, "batteryLevel", U(100))
            temperature == Get(fIn, "temperature", U(25))
            efficiency == Get(fIn, "efficiency", U(95))
            battery == AlertsOnMetric("battery_level")
            temp == AlertsOnMetric("temperature")
            eff == AlertsOnMetric("efficiency")
        IN  /\ Len(battery) = IF battery_level < U(20) THEN 1 ELSE 0
            /\ Len(temp) = IF temperature > U(40) THEN 1 ELSE 0
            /\ Len(eff) = IF efficiency < U(90) THEN 1 ELSE 0
            /\ battery_level = 199 => battery[1].severity = "warning"
            /\ battery_level = U(0) => battery[1].severity = "critical"
            /\ temperature = 401 => temp[1].severity = "warning"
            /\ temperature = U(100) => temp[1].severity = "critical"
            /\ efficiency = 899 => eff[1].severity = "warning"
            /\ efficiency = U(0) => eff[1].severity = "critical"


(***************************************************************************)
(* Alerts on the units, in Spec and SpecGate.                               *)
(***************************************************************************)
\* The state is the one an update_ups_alerts call that returned True left.
AlertsUpdated == last.op = "update_ups_alerts" /\ last.result

\* The ML alerts unit u carries.
MlAlerts(u) == SelectSeq(ups[u].alerts, LAMBDA alert : alert.type = "ml_prediction")

\* C23: after update_ups_alerts completes, a unit whose latest persisted
\* prediction has a failure probability above 0.7 carries a critical
\* ml_prediction alert, one with 0.5 < p <= 0.7 a warning ml_prediction alert,
\* and one with no prediction or p <= 0.5 no ml_prediction alert.
C23_MlAlertFollowsLatestPrediction ==
    AlertsUpdated =>
        \A u \in DOMAIN ups :
            LET mine == RecordsFor(LatestPredictions(predictions), u)
                p == IF mine = <<>> THEN 0 ELSE mine[1].probability_failure
            IN  /\ p > 70 =>
                    \E i \in 1..Len(MlAlerts(u)) : MlAlerts(u)[i].severity = "critical"
                /\ (p > 50 /\ p <= 70) =>
                    \E i \in 1..Len(MlAlerts(u)) : MlAlerts(u)[i].severity = "warning"
                /\ p <= 50 => MlAlerts(u) = <<>>

\* C24: a successful update_ups_alerts leaves on every unit exactly the alerts
\* derived in that call from the units and the predictions it read: alerts of
\* earlier calls are gone and the list does not grow from call to call.
C24_AlertsLatestWin ==
    [][(last'.op = "update_ups_alerts" /\ last'.result) =>
          \A u \in DOMAIN ups' :
              ups'[u].alerts =
                  AlertsOf(u, generate_status_alerts(ups)
                              \o generate_ml_prediction_alerts(LatestPredictions(predictions)))]_vars

\* A unit that carried a battery alert carries none after the call, next to a
\* unit that still does.
C24_Witness ==
    /\ AlertsUpdated
    /\ \E u \in DOMAIN ups : ~Missing(ups[u], "upsId") /\ ups[u].alerts = <<>>
    /\ \E v \in DOMAIN ups : ups[v].alerts # <<>>


(***************************************************************************)
(* The history samples of the refresh loop, in SpecGate.                   *)
(***************************************************************************)
\* The samples ups_history holds of unit u taken at minute t.
SamplesOf(u, t) ==
    SelectSeq(ups_history, LAMBDA h : h.upsObjectId = u /\ h.timestamp = t)

\* C25: in every refresh tick, each unit whose record was updated has exactly
\* one history sample of that tick, carrying the metric values and the status
\* written to the unit: no unit advances without its sample.
C25_EveryUpdateHasItsSample ==
    (last.op = "update_ups_data" /\ last.result) =>
        \A u \in last.updated :
            /\ Len(SamplesOf(u, now)) = 1
            /\ SamplesOf(u, now)[1].batteryLevel = ups[u].batteryLevel
            /\ SamplesOf(u, now)[1].temperature = ups[u].temperature
            /\ SamplesOf(u, now)[1].efficiency = ups[u].efficiency
            /\ SamplesOf(u, now)[1].status = ups[u].status

\* C26: no step of the engine updates or deletes a history sample: every step
\* leaves the samples already in ups_history in place, with their values.
C26_HistoryAppendOnly ==
    [][/\ Len(ups_history') >= Len(ups_history)
       /\ SubSeq(ups_history', 1, Len(ups_history)) = ups_history]_vars

\* A second tick has appended its samples after those of the first.
C26_Witness ==
    /\ last.op = "update_ups_data"
    /\ \E i, j \in 1..Len(ups_history) :
          /\ i < j
          /\ ups_history[i].timestamp < ups_history[j].timestamp
          /\ ups_history[j].timestamp = now


(***************************************************************************)
(* SpecCycles: the two prediction steps alone, generate_predictions of the *)
(* continuous service and run_predictions of the refresh loop, over the    *)
(* stores as a stopped, not yet started or unreachable refresh leaves them.*)
(***************************************************************************)
\* Before the refresh loop has started, or after it gave up, with or without a
\* fleet; or at its prediction step after an update_ups_data call that could
\* not reach the store.
InitCycles ==
    /\ \/ ups = <<>> /\ mpc \in {"start", "stopped"}
       \/ ups = ExistingFleet /\ mpc \in {"start", "predict"}
    /\ predictions \in {<<>>, LeftoverPredictions}
    /\ now = 0
    /\ last_prediction_time = None
    /\ made_at = <<>>
    /\ ups_history = <<>>
    /\ last = [op |-> "none", cycle |-> 0]
    /\ StatusIdle
    /\ PureIdle
    /\ GeminiIdle

NextCycles ==
    \/ GeneratePredictions
    \/ RunPredictions

SpecCycles == InitCycles /\ [][NextCycles]_vars


(***************************************************************************)
(* SpecWindow: _fetch_recent_history as make_predictions calls it for one  *)
(* unit of a two-unit fleet, over the ups_history the refresh loop wrote.  *)
(***************************************************************************)
\* Samples one unit has accumulated, at most.
MaxSamples == 62

\* limit=60 of _fetch_recent_history
history_limit == 60

\* Fleets of two units, by the fields that name a unit: two units registered
\* through POST /api/ups (upsId checked unique, name free); and a unit made by
\* create_ups_systems (name 'UPS-01', no upsId) next to a unit registered with
\* upsId 'UPS-01'.
WindowFleets ==
    { <<[upsId |-> "UPS001", name |-> "Main"], [upsId |-> "UPS002", name |-> "Main"]>>,
      <<[name |-> "UPS-01"], [upsId |-> "UPS-01", name |-> "Rack A"]>> }

\* ups.get('upsId') or ups.get('name'): the upsId field of a unit's samples
SampleKey(doc) == IF ~Missing(doc, "upsId") THEN doc.upsId ELSE doc.name

\* The samples update_ups_data has inserted after `ticks` ticks, when unit u
\* has been in the fleet for the last count[u] of them: tick by tick, the
\* units in order, each sample at its own instant.
RECURSIVE SamplesAfter(_, _, _)
SamplesAfter(ticks, fleet, count) ==
    IF ticks = 0 THEN <<>>
    ELSE LET present == SelectSeq(<<1, 2>>, LAMBDA u : count[u] >= ticks)
         IN  [i \in 1..Len(present) |->
                [upsId |-> SampleKey(fleet[present[i]]), upsObjectId |-> present[i],
                 timestamp |-> 2 * (MaxSamples + 1 - ticks) + present[i]]]
             \o SamplesAfter(ticks - 1, fleet, count)

\* sort("timestamp", -1)
RECURSIVE SortNewestFirst(_)
SortNewestFirst(rows) ==
    IF rows = <<>> THEN <<>>
    ELSE LET newest == CHOOSE i \in 1..Len(rows) :
                           \A j \in 1..Len(rows) : rows[j].timestamp <= rows[i].timestamp
         IN  <<rows[newest]>>
             \o SortNewestFirst(SubSeq(rows, 1, newest - 1) \o SubSeq(rows, newest + 1, Len(rows)))

\* coll.find({"upsId": ups_id}).sort("timestamp", -1).limit(limit)
fetch_recent_history(coll, ups_id, limit) ==
    Take(SortNewestFirst(SelectSeq(coll, LAMBDA h : h.upsId = ups_id)), limit)

\* ups_id = ups.get('upsId') or ups.get('name') or str(ups.get('_id'))
HistoryQueryKey(doc) == SampleKey(doc)

WindowInputs ==
    [fleet : WindowFleets, count : [{1, 2} -> {0, 1, 2, MaxSamples - 2, MaxSamples - 1, MaxSamples}],
     unit : {1, 2}]

InitWindow ==
    /\ fIn \in WindowInputs
    /\ fOut = <<>>
    /\ StatusIdle
    /\ GeminiIdle
    /\ EngineIdle

FetchRecentHistory ==
    /\ fOut = <<>>
    /\ fOut' = <<fetch_recent_history(SamplesAfter(MaxSamples, fIn.fleet, fIn.count),
                                      HistoryQueryKey(fIn.fleet[fIn.unit]), history_limit)>>
    /\ UNCHANGED <<fIn, statusVars, geminiVars, engineVars>>

NextWindow == FetchRecentHistory

SpecWindow == InitWindow /\ [][NextWindow]_vars

\* C27: the window read for a unit holds at most 60 samples, all of that unit,
\* newest first, and no sample of the unit left out is newer than one read.
C27_WindowBoundedOwnAndRecent ==
    fOut # <<>> =>
        LET window == fOut[1]
            own == SelectSeq(SamplesAfter(MaxSamples, fIn.fleet, fIn.count),
                             LAMBDA h : h.upsObjectId = fIn.unit)
        IN  /\ Len(window) <= 60
            /\ \A i \in 1..Len(window) : window[i].upsObjectId = fIn.unit
            /\ \A i, j \in 1..Len(window) :
                  i < j => window[i].timestamp > window[j].timestamp
            /\ \A k \in 1..Len(own) :
                  \/ \E i \in 1..Len(window) : window[i] = own[k]
                  \/ \A i \in 1..Len(window) : window[i].timestamp > own[k].timestamp


(***************************************************************************)
(* SpecEnsemble: RandomForestClassifier.predict and predict_proba          *)
(* (ml_utils.py) applied to one sample.  A fitted ensemble is its list of  *)
(* trees and classes_, the sorted labels it was fitted on; a probability   *)
(* count / len(sample_preds) is kept as the pair of the two integers.      *)
(***************************************************************************)
\* Members of the largest ensemble explored.
MaxTrees == 3

\* The two kinds of tree node _create_tree builds.
Leaf(prediction) == [type |-> "leaf", prediction |-> prediction]
Split(feature_idx, split_value, left, right) ==
    [type |-> "split", feature_idx |-> feature_idx, split_value |-> split_value,
     left |-> left, right |-> right]

\* _predict_sample; sample[k + 1] is the feature of index k
RECURSIVE predict_sample(_, _)
predict_sample(sample, tree) ==
    IF tree.type = "leaf" THEN tree.prediction
    ELSE IF sample[tree.feature_idx + 1] <= tree.split_value
        THEN predict_sample(sample, tree.left)
    ELSE predict_sample(sample, tree.right)

\* sample_preds: the vote of every tree, in order
SamplePreds(trees, sample) == [i \in 1..Len(trees) |-> predict_sample(sample, trees[i])]

\* The number of votes for one label.
VoteCount(sample_preds, label) ==
    Cardinality({i \in 1..Len(sample_preds) : sample_preds[i] = label})

\* predict, for one sample: np.bincount(sample_preds).argmax(), the lowest of
\* the labels with the highest count
predict(trees, sample) ==
    LET sample_preds == SamplePreds(trees, sample)
        labels == {sample_preds[i] : i \in 1..Len(sample_preds)}
    IN  CHOOSE best \in labels :
            \A other \in labels :
                \/ VoteCount(sample_preds, other) < VoteCount(sample_preds, best)
                \/ VoteCount(sample_preds, other) = VoteCount(sample_preds, best)
                   /\ best <= other

\* A plausible slip: the whole probability goes to the class predicted.
predict_proba_hard(trees, classes, sample) ==
    [i \in 1..Len(classes) |->
        [num |-> IF classes[i] = predict(trees, sample) THEN Len(trees) ELSE 0,
         den |-> Len(trees)]]

\* predict_proba, for one sample: proba[pred_idx] = count / len(sample_preds)
predict_proba(trees, classes, sample) ==
    LET sample_preds == SamplePreds(trees, sample)
    IN  [i \in 1..Len(classes) |->
            [num |-> VoteCount(sample_preds, classes[i]), den |-> Len(sample_preds)]]

\* classes_ of the ensembles explored: the three status classes of map_status,
\* or two of them.
ClassLists == {<<0, 1, 2>>, <<0, 1>>, <<0, 2>>}

\* The value the trees split the first feature on, and samples below, at and
\* above it.
SplitValue == U(50)
EnsembleSamples == {<<U(10)>>, <<SplitValue>>, <<U(90)>>}

\* Trees over the labels of `classes`: a leaf, or one split over two leaves.
TreesOver(classes) ==
    LET labels == {classes[i] : i \in 1..Len(classes)}
    IN  {Leaf(c) : c \in labels}
        \cup {Split(0, SplitValue, Leaf(l), Leaf(r)) : l \in labels, r \in labels}

\* Ensembles of one to MaxTrees trees over the labels of `classes`.
EnsemblesOver(classes) == UNION {[1..n -> TreesOver(classes)] : n \in 1..MaxTrees}

InitEnsemble ==
    /\ \E classes \in ClassLists :
          fIn \in [classes : {classes}, trees : EnsemblesOver(classes), sample : EnsembleSamples]
    /\ fOut = <<>>
    /\ StatusIdle
    /\ GeminiIdle
    /\ EngineIdle

EnsemblePredict ==
    /\ fOut = <<>>
    /\ fOut' = <<[prediction |-> predict(fIn.trees, fIn.sample),
                  proba |-> predict_proba(fIn.trees, fIn.classes, fIn.sample)]>>
    /\ UNCHANGED <<fIn, statusVars, geminiVars, engineVars>>

NextEnsemble == EnsemblePredict

SpecEnsemble == InitEnsemble /\ [][NextEnsemble]_vars

\* The members of the ensemble that vote one label on the sample.
Voters(label) ==
    {i \in 1..Len(fIn.trees) : predict_sample(fIn.sample, fIn.trees[i]) = label}

\* C30: predict_proba gives for each class the fraction of the members voting
\* that class, a non-negative number, the fractions summing to 1; and predict
\* returns a class no other class has more votes than.
C30_ProbaIsVoteShare ==
    fOut # <<>> =>
        LET proba == fOut[1].proba
            members == Len(fIn.trees)
        IN  /\ Len(proba) = Len(fIn.classes)
            /\ \A i \in 1..Len(proba) :
                  /\ proba[i].den = members
                  /\ proba[i].num = Cardinality(Voters(fIn.classes[i]))
                  /\ proba[i].num >= 0
            /\ SeqSum([i \in 1..Len(proba) |-> proba[i].num]) = members
            /\ \E i \in 1..Len(fIn.classes) : fIn.classes[i] = fOut[1].prediction
            /\ \A i \in 1..Len(fIn.classes) :
                  Cardinality(Voters(fIn.classes[i])) <= Cardinality(Voters(fOut[1].prediction))

\* The members disagree: three classes, each with at least one vote.
C30_Witness ==
    /\ fOut # <<>>
    /\ Len(fOut[1].proba) = 3
    /\ \A i \in 1..3 : fOut[1].proba[i].num > 0


(***************************************************************************)
(* The model artifact, in SpecCycles.                                      *)
(***************************************************************************)
\* C29: when the model artifact is absent or cannot be unpickled, load_model
\* returns False and the prediction step that called it skips the cycle: it
\* writes no prediction, and its loop goes on (the refresh loop to its sleep
\* with the gate still open, the continuous service to its next cycle).
C29_MissingModelSkipsCycle ==
    [][(/\ last'.op \in {"run_predictions", "generate_predictions"}
        /\ last'.artifact \in {"absent", "corrupt"})
          => /\ predictions' = predictions
             /\ last'.op = "run_predictions" =>
                   /\ ~last'.ran
                   /\ mpc' = "sleep"
                   /\ last_prediction_time' = last_prediction_time
             /\ last'.op = "generate_predictions" =>
                   /\ last'.outcome = "no_model"
                   /\ mpc' = mpc]_vars

\* A cycle of the continuous service has met an artifact that cannot be
\* unpickled, after a run_predictions that made nothing, with records in
\* ups_predictions.
C29_Witness ==
    /\ last.op = "generate_predictions"
    /\ last.artifact = "corrupt"
    /\ mpc = "sleep"
    /\ last_prediction_time = None
    /\ predictions = LeftoverPredictions


(***************************************************************************)
(* SpecInfer: inference for one unit, run several times over the same      *)
(* artifact, unit document and ups_history: make_predictions' work on one  *)
(* unit (its history window, the history risk, the feature vector) and    *)
(* predict_with_detailed_reasons.  Only the wall clock and the answer of   *)
(* the explanation service change from run to run.                         *)
(***************************************************************************)
\* Inference runs explored over one persisted state.
MaxRuns == 2

\* Members of the ensembles explored by SpecInfer.
InferMembers == 2

\* The minutes at which inference can run, and the length of the hour that
\* the `minutes` argument of _fetch_recent_history names.
RunTimes == {100, 130, 170}
history_minutes == 60

\* d with key set to value: ups['failureRisk'] = history_risk
WithField(d, key, value) ==
    [k \in DOMAIN d \cup {key} |-> IF k = key THEN value ELSE d[k]]

\* get_num: the value as a float, or the default when it is absent or float() raises
get_num(d, key, default) ==
    IF Missing(d, key) \/ NotNumeric(d, key) THEN default ELSE d[key]

\* features_vec of predict_with_detailed_reasons; failureRisk is in units of 1/One
features_vec(ups_data) ==
    << get_num(ups_data, "powerInput", 0), get_num(ups_data, "powerOutput", 0),
       get_num(ups_data, "batteryLevel", U(100)), get_num(ups_data, "temperature", U(25)),
       get_num(ups_data, "efficiency", U(95)), get_num(ups_data, "load", U(50)),
       get_num(ups_data, "voltageInput", U(230)), get_num(ups_data, "voltageOutput", U(230)),
       get_num(ups_data, "frequency", U(50)), get_num(ups_data, "capacity", U(2000)),
       get_num(ups_data, "criticalLoad", U(500)), get_num(ups_data, "uptime", U(100)),
       get_num(ups_data, "failureRisk", 0) >>

\* A plausible slip: the window is cut at `minutes` before the time of the call.
RecentHistoryWithinHour(coll, ups_id, at) ==
    fetch_recent_history(SelectSeq(coll, LAMBDA h : h.timestamp >= at - history_minutes),
                         ups_id, history_limit)

\* self._fetch_recent_history(ups_id, minutes=60, limit=60) called at minute
\* `at`: the query has no condition on the timestamp
RecentHistoryAt(coll, ups_id, at) == fetch_recent_history(coll, ups_id, history_limit)

\* count / len(sample_preds) as a float, in hundredths
ProbaHundredths(proba) == [i \in 1..Len(proba) |-> (100 * proba[i].num) \div proba[i].den]

\* The unit as make_predictions hands it to the trainer: failureRisk set from
\* the history window.  The averaging of temperature, efficiency and load
\* over the window calls np.mean in a module that does not import numpy; the
\* NameError is swallowed by the inner except and the three fields stay.
EnrichedUnit(ups_data, coll, at) ==
    WithField(ups_data, "failureRisk",
              compute_history_risk(RecentHistoryAt(coll, HistoryQueryKey(ups_data), at)).risk)

\* One inference: the fields of the result, with the reasons the explanation
\* service gave this time.
Inference(model, ups_data, coll, at, failure_reasons) ==
    LET sample == features_vec(EnrichedUnit(ups_data, coll, at))
        result == predict_with_detailed_reasons(
                      TRUE, ProbaHundredths(predict_proba(model.trees, model.classes, sample)))
    IN  [at |-> at, failure_reasons |-> failure_reasons, features_used |-> sample,
         prediction |-> predict(model.trees, sample),
         probability_failure |-> result.probability_failure,
         probability_healthy |-> result.probability_healthy,
         confidence |-> result.confidence]

\* The value the trees split failureRisk on: a risk of 0.2.
RiskSplit == One \div 5

\* Trees of a two-class artifact: leaves, a split on powerInput (feature 0)
\* and splits on failureRisk (feature 12).
InferTrees ==
    { Leaf(0), Leaf(1), Split(0, SplitValue, Leaf(0), Leaf(1)),
      Split(12, RiskSplit, Leaf(0), Leaf(1)), Split(12, RiskSplit, Leaf(1), Leaf(0)) }

InferModels == [classes : {<<0, 1>>}, trees : [1..InferMembers -> InferTrees]]

\* The unit document: registered, with a power input below or above the split.
InferUnits ==
    { [upsId |-> "UPS001", name |-> "Main", powerInput |-> U(10), batteryLevel |-> U(60),
       temperature |-> U(30), efficiency |-> U(92), status |-> "healthy"],
      [upsId |-> "UPS001", name |-> "Main", powerInput |-> U(90), batteryLevel |-> U(60),
       temperature |-> U(30), efficiency |-> U(92), status |-> "healthy"] }

\* Samples of the unit: a hot one with a low battery from minute 30, a mild
\* one from minute 60, a cool one from minute 90.
InferSamples ==
    << [upsId |-> "UPS001", timestamp |-> 30, batteryLevel |-> U(15), temperature |-> U(45),
        efficiency |-> U(80)],
       [upsId |-> "UPS001", timestamp |-> 60, batteryLevel |-> U(70), temperature |-> U(33),
        efficiency |-> U(90)],
       [upsId |-> "UPS001", timestamp |-> 90, batteryLevel |-> U(100), temperature |-> U(25),
        efficiency |-> U(95)] >>

\* ups_history: any of the three samples, in the order they were taken.
InferHistories ==
    { SelectSeq(InferSamples, LAMBDA h : h.timestamp \in kept) : kept \in SUBSET {30, 60, 90} }

InitInfer ==
    /\ fIn \in [model : InferModels, ups : InferUnits, coll : InferHistories]
    /\ fOut = <<>>
    /\ StatusIdle
    /\ GeminiIdle
    /\ EngineIdle

\* One more run of inference, later than the runs before it.
Infer ==
    /\ Len(fOut) < MaxRuns
    /\ \E at \in RunTimes, failure_reasons \in {"explained", "fallback"} :
          /\ \A i \in 1..Len(fOut) : fOut[i].at < at
          /\ fOut' = Append(fOut, Inference(fIn.model, fIn.ups, fIn.coll, at, failure_reasons))
    /\ UNCHANGED <<fIn, statusVars, geminiVars, engineVars>>

NextInfer == Infer

SpecInfer == InitInfer /\ [][NextInfer]_vars

\* C28: inference runs over the same model and the same persisted unit and
\* history give the same probability_failure, probability_healthy and
\* confidence, whenever they run and whatever the explanation service says.
C28_InferenceDeterministic ==
    \A i, j \in 1..Len(fOut) :
        /\ fOut[i].probability_failure = fOut[j].probability_failure
        /\ fOut[i].probability_healthy = fOut[j].probability_healthy
        /\ fOut[i].confidence = fOut[j].confidence

\* Two runs an hour apart, explained differently, over a history whose oldest
\* sample is more than an hour before the second run, with the members split.
C28_Witness ==
    /\ Len(fOut) >= 2
    /\ fOut[2].at - fOut[1].at >= history_minutes
    /\ fOut[1].failure_reasons # fOut[2].failure_reasons
    /\ fOut[1].probability_failure = 50
    /\ \E k \in 1..Len(fIn.coll) : fIn.coll[k].timestamp < fOut[2].at - history_minutes


(***************************************************************************)
(* SpecTrain: RandomForestClassifier.fit on a small dataset, followed by   *)
(* predict_proba on one sample and the probability_failure that            *)
(* predict_with_detailed_reasons derives from it.                          *)
(***************************************************************************)
\* Rows of training data explored.
MaxRows == 3

\* The k-th smallest of a sequence of numbers, k in 1..Len(values).
KthSmallest(values, k) ==
    CHOOSE v \in {values[i] : i \in 1..Len(values)} :
        /\ Cardinality({i \in 1..Len(values) : values[i] < v}) < k
        /\ Cardinality({i \in 1..Len(values) : values[i] <= v}) >= k

\* np.median: the middle value, or the mean of the two middle values (the
\* values explored are even, so the mean is a whole number)
Median(values) ==
    (KthSmallest(values, (Len(values) + 1) \div 2)
        + KthSmallest(values, Len(values) \div 2 + 1)) \div 2

\* X[:, feature_idx]
Column(X, feature_idx) == [i \in 1..Len(X) |-> X[i][feature_idx + 1]]

\* np.unique(y): the labels present, ascending
Unique(y) == SelectSeq(<<0, 1, 2>>, LAMBDA c : \E i \in 1..Len(y) : y[i] = c)

\* np.bincount(y).argmax(): the most frequent label, the lowest on a tie
BincountArgmax(y) ==
    CHOOSE best \in {y[i] : i \in 1..Len(y)} :
        \A other \in {y[i] : i \in 1..Len(y)} :
            \/ VoteCount(y, other) < VoteCount(y, best)
            \/ VoteCount(y, other) = VoteCount(y, best) /\ best <= other

\* X[mask] and y[mask], for the rows whose index is in `rows`
Rows(data, rows) ==
    LET RECURSIVE Pick(_)
        Pick(i) == IF i > Len(data) THEN <<>>
                   ELSE (IF i \in rows THEN <<data[i]>> ELSE <<>>) \o Pick(i + 1)
    IN  Pick(1)

\* The feature _create_tree splits a node on.
first_feature == 0

\* _create_tree
RECURSIVE create_tree(_, _)
create_tree(X, y) ==
    IF Len(Unique(y)) = 1 THEN Leaf(y[1])
    ELSE IF Len(X[1]) = 0 THEN Leaf(BincountArgmax(y))
    ELSE LET feature_values == Column(X, first_feature)
             split_value == Median(feature_values)
             left_mask == {i \in 1..Len(X) : feature_values[i] <= split_value}
             right_mask == (1..Len(X)) \ left_mask
         IN  IF left_mask = {} \/ right_mask = {} THEN Leaf(BincountArgmax(y))
             ELSE Split(first_feature, split_value,
                        create_tree(Rows(X, left_mask), Rows(y, left_mask)),
                        create_tree(Rows(X, right_mask), Rows(y, right_mask)))

\* A plausible slip (or a repair): every member is built from a resample of
\* the rows, here the data without the row of the member's own index.
fit_resampled(X, y, n_estimators) ==
    [classes |-> Unique(y),
     trees |-> [k \in 1..n_estimators |->
                   LET kept == IF Len(X) > 1 THEN (1..Len(X)) \ {((k - 1) % Len(X)) + 1}
                               ELSE 1..Len(X)
                   IN  create_tree(Rows(X, kept), Rows(y, kept))]]

\* fit: classes_ and the n_estimators trees, each built from all of X, y
\* (np.random.seed has no effect on _create_tree)
fit(X, y, n_estimators) ==
    [classes |-> Unique(y), trees |-> [k \in 1..n_estimators |-> create_tree(X, y)]]

\* Rows of two features, with even values, and their labels.
TrainRows == {<<20, 20>>, <<40, 80>>, <<60, 20>>}
TrainLabels == {0, 1, 2}
TrainSets ==
    UNION { [X : [1..n -> TrainRows], y : [1..n -> TrainLabels]] : n \in 1..MaxRows }
TrainSamples == {<<20, 80>>, <<60, 20>>}

InitTrain ==
    /\ \E data \in TrainSets, n_estimators \in {1, MaxTrees}, sample \in TrainSamples :
          fIn = [X |-> data.X, y |-> data.y, n_estimators |-> n_estimators, sample |-> sample]
    /\ fOut = <<>>
    /\ StatusIdle
    /\ GeminiIdle
    /\ EngineIdle

\* model.fit(X, y), then predict_with_detailed_reasons on the sample.
FitAndPredict ==
    /\ fOut = <<>>
    /\ LET model == fit(fIn.X, fIn.y, fIn.n_estimators)
           proba == predict_proba(model.trees, model.classes, fIn.sample)
           result == predict_with_detailed_reasons(TRUE, ProbaHundredths(proba))
       IN  fOut' = <<[classes |-> model.classes, trees |-> model.trees, proba |-> proba,
                      probability_failure |-> result.probability_failure]>>
    /\ UNCHANGED <<fIn, statusVars, geminiVars, engineVars>>

NextTrain == FitAndPredict

SpecTrain == InitTrain /\ [][NextTrain]_vars

\* The spread of a feature over the rows of a node.
Spread(X, feature_idx) ==
    LET values == Column(X, feature_idx)
    IN  KthSmallest(values, Len(values)) - KthSmallest(values, 1)

\* Every split of the tree is on a feature of largest spread among the node's
\* rows, at the median of that feature over the node.
RECURSIVE SplitsOnWidest(_, _)
SplitsOnWidest(X, tree) ==
    tree.type = "split" =>
        LET values == Column(X, tree.feature_idx)
            left == {i \in 1..Len(X) : values[i] <= tree.split_value}
        IN  /\ \A f \in 0..(Len(X[1]) - 1) : Spread(X, f) <= Spread(X, tree.feature_idx)
            /\ tree.split_value = Median(values)
            /\ SplitsOnWidest(Rows(X, left), tree.left)
            /\ SplitsOnWidest(Rows(X, (1..Len(X)) \ left), tree.right)

\* C31: each tree splits a node on the feature with the largest spread among
\* the node's samples, at that feature's median over the node.
C31_SplitsOnWidestFeature ==
    fOut # <<>> =>
        \A k \in 1..Len(fOut[1].trees) : SplitsOnWidest(fIn.X, fOut[1].trees[k])


\* C34 as stated: all members are the same tree, predict_proba is one-hot and
\* probability_failure is 0 or 1.
C34_FailureProbabilityIsZeroOrOne ==
    fOut # <<>> =>
        /\ \A k \in 1..Len(fOut[1].trees) : fOut[1].trees[k] = fOut[1].trees[1]
        /\ \E i \in 1..Len(fOut[1].proba) :
              /\ fOut[1].proba[i].num = fOut[1].proba[i].den
              /\ \A j \in 1..Len(fOut[1].proba) : j # i => fOut[1].proba[j].num = 0
        /\ fOut[1].probability_failure \in {0, 100}

\* C34, amended: all members are the same tree and predict_proba is one-hot;
\* probability_failure is 0 or 1 when the labels fitted had at least two
\* classes, and 0.5 when they had one.
C34_OneHotOrHalf ==
    fOut # <<>> =>
        /\ \A k \in 1..Len(fOut[1].trees) : fOut[1].trees[k] = fOut[1].trees[1]
        /\ \E i \in 1..Len(fOut[1].proba) :
              /\ fOut[1].proba[i].num = fOut[1].proba[i].den
              /\ \A j \in 1..Len(fOut[1].proba) : j # i => fOut[1].proba[j].num = 0
        /\ Len(fOut[1].classes) > 1 => fOut[1].probability_failure \in {0, 100}
        /\ Len(fOut[1].classes) = 1 => fOut[1].probability_failure = 50

\* Several members, fitted on three classes with a split, asked about a sample.
C34_Witness ==
    /\ fOut # <<>>
    /\ Len(fOut[1].trees) > 1
    /\ Len(fOut[1].classes) = 3
    /\ fOut[1].trees[1].type = "split"
    /\ fOut[1].probability_failure = 100


(***************************************************************************)
(* The features handed to the classifier, in SpecInfer.                    *)
(***************************************************************************)
\* The window make_predictions read for the unit, and its up to 5 most recent
\* samples.
InferWindow == fetch_recent_history(fIn.coll, HistoryQueryKey(fIn.ups), history_limit)
InferRecent == Take(InferWindow, 5)

\* C35: with a non-empty history window the temperature and the efficiency
\* given to the classifier are the means over the up to 5 most recent samples;
\* with an empty window the history risk is 0 and the unit's own temperature
\* and efficiency are used.
C35_SmoothedWhenHistory ==
    \A i \in 1..Len(fOut) :
        LET features == fOut[i].features_used
        IN  IF InferWindow # <<>>
            THEN /\ Len(InferRecent) * features[4] =
                        SeqSum([k \in 1..Len(InferRecent) |-> InferRecent[k].temperature])
                 /\ Len(InferRecent) * features[5] =
                        SeqSum([k \in 1..Len(InferRecent) |-> InferRecent[k].efficiency])
            ELSE /\ features[13] = 0
                 /\ features[4] = fIn.ups.temperature
                 /\ features[5] = fIn.ups.efficiency


(***************************************************************************)
(* SpecStartup: RealTimeUPSMonitor.initialize: load the model artifact,    *)
(* train one from ups_history when that fails, then ping the datastore.    *)
(* fIn holds the artifact on disk, the history documents and the state of  *)
(* the datastore; fOut the steps taken so far with what they returned.     *)
(***************************************************************************)
\* The keyword arguments RandomForestClassifier.__init__ declares, and the
\* ones train_model constructs it with.
init_keywords == {"n_estimators", "max_depth", "random_state", "class_weight"}
train_keywords == {"n_estimators", "max_depth", "random_state", "n_jobs"}

\* train_test_split with stratify=y: of each label, the first
\* int(count * (1 - test_size)) rows in shuffled order go to the training
\* part.  The shuffle of seed 42 is a fixed permutation; the rows explored
\* come in every order.
TrainPart(y) ==
    {i \in 1..Len(y) :
        Cardinality({j \in 1..i : y[j] = y[i]}) <= (VoteCount(y, y[i]) * 8) \div 10}

\* train_model: what it returns and whether save_model wrote the artifact.
\* An unexpected keyword makes the constructor raise TypeError, and so does
\* an empty training part make the indexing raise; both are caught by the
\* method's except, which returns False.
train_model(docs, keywords) ==
    IF docs.y = <<>> THEN [returned |-> FALSE, saved |-> FALSE]
    ELSE IF TrainPart(docs.y) = {} THEN [returned |-> FALSE, saved |-> FALSE]
    ELSE IF ~(keywords \subseteq init_keywords) THEN [returned |-> FALSE, saved |-> FALSE]
    ELSE [returned |-> TRUE, saved |-> TRUE]

\* ups_history as train_model finds it: empty, or rows with their labels.
StartupDocs == {[X |-> <<>>, y |-> <<>>]} \cup TrainSets

InitStartup ==
    /\ fIn \in [artifact : Artifacts, docs : StartupDocs, ping : BOOLEAN]
    /\ fOut = <<>>
    /\ StatusIdle
    /\ GeminiIdle
    /\ EngineIdle

StartupStep(step, returned) == [step |-> step, returned |-> returned]

\* if not self.model_trainer.load_model()
StartupLoad ==
    /\ fOut = <<>>
    /\ fOut' = <<StartupStep("load_model", load_model(fIn.artifact))>>
    /\ UNCHANGED <<fIn, statusVars, geminiVars, engineVars>>

\* if not self.model_trainer.train_model(): return False
StartupTrain ==
    /\ Len(fOut) = 1
    /\ ~fOut[1].returned
    /\ LET trained == train_model(fIn.docs, train_keywords)
       IN  /\ fOut' = fOut \o <<StartupStep("train_model", trained.returned)>>
                         \o (IF trained.returned THEN <<>>
                             ELSE <<StartupStep("initialize", FALSE)>>)
           /\ fIn' = [fIn EXCEPT !.artifact = IF trained.saved THEN "valid" ELSE @]
    /\ UNCHANGED <<statusVars, geminiVars, engineVars>>

\* if not self.test_mongodb_connection(): return False; else return True
StartupPing ==
    /\ fOut # <<>>
    /\ fOut[Len(fOut)].step \in {"load_model", "train_model"}
    /\ fOut[Len(fOut)].returned
    /\ fOut' = fOut \o <<StartupStep("test_mongodb_connection", fIn.ping),
                         StartupStep("initialize", fIn.ping)>>
    /\ UNCHANGED <<fIn, statusVars, geminiVars, engineVars>>

NextStartup == StartupLoad \/ StartupTrain \/ StartupPing

SpecStartup == InitStartup /\ [][NextStartup]_vars

\* C36: with history data available (enough of it to leave a training part)
\* train_model returns True and leaves an artifact that load_model accepts;
\* and the start-up that found no usable artifact, trained, and can reach the
\* datastore ends in monitoring.
C36_TrainingEnablesMonitoring ==
    \A i \in 1..Len(fOut) :
        (fOut[i].step = "train_model" /\ TrainPart(fIn.docs.y) # {}) =>
            /\ fOut[i].returned
            /\ load_model(fIn.artifact)
            /\ (fIn.ping /\ fOut[Len(fOut)].step = "initialize") => fOut[Len(fOut)].returned


(***************************************************************************)
(* The success path of generate_failure_reasons, in SpecGemini.            *)
(***************************************************************************)
\* C37: when the adapter returned a non-empty text from which no reason line
\* was parsed, the result is the local fallback explanation, not an empty
\* list.
C37_UnparsedTextFallsBack ==
    (/\ gpc = "done"
     /\ ~AdapterNeverAnswered
     /\ \A i \in 1..Len(gResult) : gResult[i] \notin {"ai_bullet", "ai_siren", "ai_warn"}) =>
        /\ gResult # <<>>
        /\ gResult = GenerateFallbackReasons(gIn.ups_data, gIn.probability_failure)


(***************************************************************************)
(* SpecSchedule: ContinuousPredictionService.run_loop as the start-up of   *)
(* main.py schedules it.  fIn holds the minute the task started, fOut the  *)
(* starts and returns of generate_predictions so far, each with its        *)
(* minute.                                                                 *)
(***************************************************************************)
\* Calls of generate_predictions explored in one run of the loop.
MaxLoopCycles == 3

\* await asyncio.sleep(30 * 60), in minutes
loop_sleep == 30

\* The interval the service announces, in minutes.
announced_interval == 15

\* Minutes one generate_predictions call can take.
CycleDurations == {0, 1, 2}

LoopEvent(ev, at) == [ev |-> ev, at |-> at]
LoopStarts == SelectSeq(fOut, LAMBDA e : e.ev = "start")

InitSchedule ==
    /\ fIn \in [started : 0..3]
    /\ fOut = <<>>
    /\ StatusIdle
    /\ GeminiIdle
    /\ EngineIdle

\* self.generate_predictions() before the loop
InitialGenerate ==
    /\ fOut = <<>>
    /\ fOut' = <<LoopEvent("start", fIn.started)>>
    /\ UNCHANGED <<fIn, statusVars, geminiVars, engineVars>>

\* generate_predictions returns (it catches its own exceptions)
GenerateReturns ==
    /\ fOut # <<>>
    /\ fOut[Len(fOut)].ev = "start"
    /\ \E took \in CycleDurations :
          fOut' = Append(fOut, LoopEvent("end", fOut[Len(fOut)].at + took))
    /\ UNCHANGED <<fIn, statusVars, geminiVars, engineVars>>

\* while True: await asyncio.sleep(30 * 60); self.generate_predictions()
SleepThenGenerate ==
    /\ fOut # <<>>
    /\ fOut[Len(fOut)].ev = "end"
    /\ Len(LoopStarts) < MaxLoopCycles
    /\ fOut' = Append(fOut, LoopEvent("start", fOut[Len(fOut)].at + loop_sleep))
    /\ UNCHANGED <<fIn, statusVars, geminiVars, engineVars>>

NextSchedule == InitialGenerate \/ GenerateReturns \/ SleepThenGenerate

SpecSchedule == InitSchedule /\ [][NextSchedule]_vars

\* C38: predictions are generated once when the loop starts, and the wait
\* between the end of one generate_predictions call and the start of the next
\* is 15 minutes.
C38_EveryFifteenMinutes ==
    /\ fOut # <<>> => fOut[1] = LoopEvent("start", fIn.started)
    /\ \A i \in 1..(Len(fOut) - 1) :
          fOut[i].ev = "end" =>
              /\ fOut[i + 1].ev = "start"
              /\ fOut[i + 1].at - fOut[i].at = announced_interval


(***************************************************************************)
(* The buckets written by generate_predictions, in SpecCycles.             *)
(***************************************************************************)
\* The band the cycle's closing summary counts a prediction in.
SummaryBand(probability_failure) ==
    IF probability_failure > 70 THEN "high"
    ELSE IF probability_failure >= 40 THEN "medium" ELSE "low"

C32_AlertUpdateKeepsPredictions ==
    [][(mpc = "alerts" /\ mpc' = "predict") =>
          \A i \in 1..Len(predictions) :
              predictions[i].shape = "enhanced" =>
                  \E j \in 1..Len(predictions') : predictions'[j] = predictions[i]]_vars


(***************************************************************************)
(* SpecWalk: the refresh walk of one unit over several ticks, with the     *)
(* power readings the engine's fleet leaves out.  fIn is the unit document *)
(* as stored, fOut the documents the earlier ticks found, oldest first.    *)
(***************************************************************************)
\* Refresh ticks explored on the unit.
MaxWalkTicks == 3

\* A plausible slip: the power readings are stored without their floors.
RefreshedUnitNoFloor(doc, d) ==
    [UpdatedUnit(doc, d) EXCEPT
        !.powerInput = Get(doc, "powerInput", U(1000)) + d.power_input_change,
        !.powerOutput = Get(doc, "powerOutput", U(800)) + d.power_output_change]

\* The document update_ups_data writes for one unit, power readings included.
RefreshedUnit(doc, d) ==
    [UpdatedUnit(doc, d) EXCEPT
        !.powerInput = Max(U(100), Get(doc, "powerInput", U(1000)) + d.power_input_change),
        !.powerOutput = Max(U(50), Get(doc, "powerOutput", U(800)) + d.power_output_change)]

\* One unit's draws of a tick, with uniform(-50, 50) and uniform(-30, 30) for
\* the power readings.
WalkDraw(d, power_input_change, power_output_change) ==
    [recharge |-> d.recharge, charge |-> d.charge, discharge |-> d.discharge,
     temp_change |-> d.temp_change, efficiency_change |-> d.efficiency_change,
     power_input_change |-> power_input_change,
     power_output_change |-> power_output_change]

\* The draws of one tick at the ends of their ranges.
WalkDraws ==
    { WalkDraw(DrawUp, U(50), U(30)),
      WalkDraw([DrawUp EXCEPT !.charge = U(5)], -U(50), -U(30)),
      WalkDraw(DrawDown, -U(50), -U(30)),
      WalkDraw([DrawDown EXCEPT !.discharge = 1], U(50), U(30)) }

\* Units as their writers leave them: create_ups_systems at the two ends of
\* its ranges, create_ups of the API (no power yet), set_all_ups_failed at its
\* worst (battery 5, temperature 48, efficiency 82), and a unit the walk has
\* brought to the recharge threshold and near empty.
WalkUnit(battery, temp, eff, status, power_input, power_output) ==
    [batteryLevel |-> battery, temperature |-> temp, efficiency |-> eff, status |-> status,
     powerInput |-> power_input, powerOutput |-> power_output]
WalkStarts ==
    { WalkUnit(U(100), U(20), U(98), "healthy", U(4500), U(4000)),
      WalkUnit(U(80), U(35), U(90), "healthy", U(800), U(600)),
      WalkUnit(U(100), U(25), U(95), "healthy", 0, 0),
      WalkUnit(U(5), U(48), U(82), "failed", U(800), U(600)),
      WalkUnit(203, U(44), 852, "healthy", U(120), U(60)),
      WalkUnit(3, U(16), 988, "failed", U(800), U(600)) }

InitWalk ==
    /\ fIn \in WalkStarts
    /\ fOut = <<>>
    /\ StatusIdle
    /\ GeminiIdle
    /\ EngineIdle

\* One tick of update_ups_data on the unit.
WalkTick ==
    /\ Len(fOut) < MaxWalkTicks
    /\ \E d \in WalkDraws :
          /\ fIn' = RefreshedUnit(fIn, d)
          /\ fOut' = Append(fOut, fIn)
    /\ UNCHANGED <<statusVars, geminiVars, engineVars>>

NextWalk == WalkTick

SpecWalk == InitWalk /\ [][NextWalk]_vars

\* The document tick i wrote.
WalkAfter(i) == IF i < Len(fOut) THEN fOut[i + 1] ELSE fIn

\* C39: after every tick the stored battery is in [0,100], the temperature in
\* [15,45], the efficiency in [85,99], powerInput at least 100 and powerOutput
\* at least 50; and the battery rises in a tick only from below 20, and
\* otherwise falls by at most 0.5.
C39_WalkBounded ==
    \A i \in 1..Len(fOut) :
        LET old == fOut[i]
            new == WalkAfter(i)
        IN  /\ new.batteryLevel >= 0 /\ new.batteryLevel <= U(100)
            /\ new.temperature >= U(15) /\ new.temperature <= U(45)
            /\ new.efficiency >= U(85) /\ new.efficiency <= U(99)
            /\ new.powerInput >= U(100)
            /\ new.powerOutput >= U(50)
            /\ new.batteryLevel > old.batteryLevel => old.batteryLevel < U(20)
            /\ new.batteryLevel <= old.batteryLevel =>
                   old.batteryLevel - new.batteryLevel <= 5

\* A unit found too hot and nearly empty was brought into the bounds and
\* recharged, and a later tick discharged it again.
C39_Witness ==
    /\ Len(fOut) >= 2
    /\ fOut[1].temperature > U(45)
    /\ fOut[2].batteryLevel > fOut[1].batteryLevel
    /\ fIn.batteryLevel < fOut[2].batteryLevel
    /\ fIn.temperature <= U(45)

=============================================================================
